---- MODULE Spec2Model ----
(***************************************************************************)
(* Verification model of cool-code-cleanup.                                *)
(*                                                                         *)
(* Part 1: the task executor, cleanup.ExecuteTaskPlan                      *)
(* (src/internal/cleanup/cleanup.go).  One run of ExecuteTaskPlan is a     *)
(* state machine over the WorkingCopy (`current`), the disk, the Plan, the *)
(* applied Edits, the TaskResult log and the ProgressEvents.  The oracle   *)
(* (ProjectExecutor.TransformProject) and os.WriteFile are the environment.*)
(***************************************************************************)
EXTENDS Integers, Sequences, FiniteSets, TLC

\* ------------------------------------------------------------------ bounds

\* Length of the task list handed to ExecuteTaskPlan.
MaxTasks == 3

\* Paths of the snapshot, in snapshot (walk) order, and one path the
\* snapshot does not contain (an oracle may return it).
SnapPaths == <<"a.go", "b.go">>
UnknownPath == "z.go"
AllPaths == {SnapPaths[i] : i \in 1..Len(SnapPaths)} \cup {UnknownPath}

\* File contents are opaque byte strings.
Contents == {"c0", "c1"}

\* Summaries an oracle may return: blank, and text with a trailing blank.
Summaries == {"  ", "tidy "}

\* Scopes (Task.Files) of the tasks of the input list: they alternate between
\* a part of the snapshot and all of it, starting with either.
TaskScopes == <<<<"a.go">>, <<"a.go", "b.go">>>>

\* Marker for a path that does not exist on disk.
Absent == "<absent>"

\* Error texts.
OracleErrText == "OpenAI HTTP 400: Bad Request"
WriteErr == <<"open: permission denied">>
NilExecutorErr == <<"cleanup project executor is required">>
NoError == <<>>

\* ------------------------------------------------------------------ state

VARIABLES
    snapshot,     \* []ProjectFile argument
    tasks,        \* []Task argument
    dryRun,       \* dryRun argument
    executor,     \* "impl" or "nil": the ProjectExecutor argument
    pc,           \* position in ExecuteTaskPlan
    ti,           \* index (1-based) of the task of the for loop
    current,      \* WorkingCopy: map path -> content
    disk,         \* file system: path -> content or Absent
    plan,         \* plan.Edits
    applied,      \* applied []Edit
    results,      \* []TaskResult
    events,       \* ProgressEvents handed to onProgress, in order
    taskFiles,    \* []ProjectFile passed to the oracle for task ti
    pending,      \* changedPaths still to be written for task ti
    ret,          \* return value of ExecuteTaskPlan once pc = "done"
    oracleCalls,  \* history: indices of the tasks the oracle was invoked for
    changeLog,    \* history: <<task index, path, content>> per WorkingCopy update
    writeLog,     \* history: <<task index, path, content>> per successful disk write
    failure,      \* history: [kind, task, path] of the oracle or write failure, if any
    outcome,      \* history: per oracle call, how the executor classified its return
    sawUnknown,   \* history: an oracle response named a path outside the WorkingCopy
    replay,       \* "off"; or "record" / "replay": first / second of two consecutive runs
    memo,         \* oracle answers of the first run (kept while replay # "off")
    prevRet       \* return value of the first run (set when the second run starts)

VARIABLES
    planFiles,    \* BuildTaskPlan: the files argument ([]ProjectFile)
    planRules,    \* BuildTaskPlan: the selectedRules argument
    planPc,       \* "idle", "call" (before the call), "once", "twice" (calls returned)
    planOut,      \* []Task returned by the call
    planAgain     \* []Task returned by a second call with the same arguments

VARIABLES
    attempt,      \* chatCompletionsWithRetry: the loop variable
    httpLog,      \* history: what each HTTP attempt of the call ended in
    sleeps,       \* history: [after, seconds] per time.Sleep of the call
    rtPc,         \* "idle", "loop" (in the retry loop) or "returned" (transformBatch returned)
    rtRet         \* return value of transformBatch: [res, err]

VARIABLES
    xfFiles,      \* TransformProject: the files argument
    xfBudget,     \* maxBytes handed to batchFiles
    xfPc,         \* "idle", "call", "loop", "returned" or "handed" (the executor has the return)
    xfBatches,    \* batches := batchFiles(files, maxBytes)
    xfNext,       \* index of the batch the loop invokes next
    xfChanged,    \* changedFiles: map path -> content
    xfSummaries,  \* summaries []string
    xfLog,        \* history: [res, err] per invoked batch
    xfRet,        \* return value of TransformProject: [res, err]
    xfDelivered   \* history: the ChangedFiles the executor's change loop gets to range over

VARIABLES
    baseFile,     \* the file at basePath: [exists, parses, SchemaVersion, Rules]
    localFile,    \* the file at localPath
    rulesPc,      \* "idle", "load" (before Load), "loaded" or "applied"
    loaded,       \* []LoadedRule: returned by Load, then updated by ApplyCLIOverrides
    warnings,     \* []string returned by Load
    loadErr,      \* error returned by Load
    cli,          \* [enable, disable, calls]: the ID lists handed to ApplyCLIOverrides
                  \* last, and how many calls were made
    ensureLog     \* history: [before, after, err] of each EnsureBaseFile call

VARIABLES
    apIn,         \* [engine, edits, dryRun]: the permission.Engine, the candidate plan.Edits, the DryRun mode
    apPc,         \* "idle", "group", "files", "edits", "apply", "done" or "failed"
    apGroups,     \* fileGroups: the files not asked about yet, with their edits
    apCur,        \* [file, edits]: the approved file and its edits not asked about yet
    approved,     \* approved.Edits
    apCalls,      \* history: the ApproveFile and ApproveEdit calls, in order
    apOut         \* [handed, written, err]: the plan handed to ApplyPlan, the edits it wrote to disk

VARIABLES
    walkTree,     \* the supported files under projectRoot in walk order: [Path, Content, readable]
    walkPc,       \* "idle", "walk" or "returned"
    walkNext,     \* index of the next file the walk visits
    walkFiles,    \* files: the ProjectFile entries appended so far
    walkRet       \* [files, err] returned by BuildProjectSnapshot

VARIABLES
    tlRoutes,     \* the filtered routes of Step 2, as route IDs
    tlDeps,       \* depGraph.Dependencies: tlDeps[r] lists the routes r requires
    tlItems,      \* ToggleList.Items
    tlCursor,     \* ToggleList.Cursor (0-based)
    tlPc,         \* "idle", "new", "step2", "ready", "accepted", "canceled"
    tlLast,       \* the last return of ToggleCurrent, with the items before the call
    tlSelected    \* selectedRoutes(filtered, routeList) after Accept

VARIABLES
    runRoutes,    \* the selected routes, as route IDs in list order
    runDeps,      \* the dependencies argument: runDeps[r] lists the routes r requires
    runPc,        \* "idle", "call", "invoke", "returned"
    runOrder,     \* order, once it is built
    runNext,      \* the position in order the invocation loop is at
    runOut        \* out: the invocations so far

vars == <<snapshot, tasks, dryRun, executor, pc, ti, current, disk, plan,
          applied, results, events, taskFiles, pending, ret, oracleCalls,
          changeLog, writeLog, failure, outcome, sawUnknown, replay, memo, prevRet,
          planFiles, planRules, planPc, planOut, planAgain,
          attempt, httpLog, sleeps, rtPc, rtRet,
          xfFiles, xfBudget, xfPc, xfBatches, xfNext, xfChanged, xfSummaries, xfLog, xfRet, xfDelivered,
          baseFile, localFile, rulesPc, loaded, warnings, loadErr, cli, ensureLog,
          apIn, apPc, apGroups, apCur, approved, apCalls, apOut,
          walkTree, walkPc, walkNext, walkFiles, walkRet,
          tlRoutes, tlDeps, tlItems, tlCursor, tlPc, tlLast, tlSelected,
          runRoutes, runDeps, runPc, runOrder, runNext, runOut>>

\* The variables of the task executor (Part 1).
executorVars == <<snapshot, tasks, dryRun, executor, pc, ti, current, disk, plan,
                  applied, results, events, taskFiles, pending, ret, oracleCalls,
                  changeLog, writeLog, failure, outcome, sawUnknown, replay, memo,
                  prevRet>>

\* The variables of the task planner (Part 2).
plannerVars == <<planFiles, planRules, planPc, planOut, planAgain>>

\* The variables of the oracle client's retry loop (Part 3).
retryVars == <<attempt, httpLog, sleeps, rtPc, rtRet>>

\* The variables of TransformProject of the oracle client (Part 4).
transformVars == <<xfFiles, xfBudget, xfPc, xfBatches, xfNext, xfChanged, xfSummaries, xfLog, xfRet, xfDelivered>>

\* The variables of the rule store (Part 5).
rulesVars == <<baseFile, localFile, rulesPc, loaded, warnings, loadErr, cli, ensureLog>>

\* The variables of the apply path.
applyVars == <<apIn, apPc, apGroups, apCur, approved, apCalls, apOut>>

\* The variables of the snapshot walk.
walkVars == <<walkTree, walkPc, walkNext, walkFiles, walkRet>>

\* The variables of the toggle list and the route-selection step.
toggleVars == <<tlRoutes, tlDeps, tlItems, tlCursor, tlPc, tlLast, tlSelected>>

\* The variables of runner.Execute.
runnerVars == <<runRoutes, runDeps, runPc, runOrder, runNext, runOut>>

\* The variables of every component but the task executor.
others == <<plannerVars, retryVars, transformVars, rulesVars, applyVars, walkVars, toggleVars, runnerVars>>

\* The planner is not in use.
PlannerIdle ==
    /\ planFiles = <<>>
    /\ planRules = <<>>
    /\ planPc = "idle"
    /\ planOut = <<>>
    /\ planAgain = <<>>

\* The oracle client's retry loop is not in use.
RetryIdle ==
    /\ attempt = 0
    /\ httpLog = <<>>
    /\ sleeps = <<>>
    /\ rtPc = "idle"
    /\ rtRet = <<>>

\* TransformProject is not in use.
TransformIdle ==
    /\ xfFiles = <<>>
    /\ xfBudget = 0
    /\ xfPc = "idle"
    /\ xfBatches = <<>>
    /\ xfNext = 0
    /\ xfChanged = <<>>
    /\ xfSummaries = <<>>
    /\ xfLog = <<>>
    /\ xfRet = <<>>
    /\ xfDelivered = <<>>

\* The rule store is not in use.
RulesIdle ==
    /\ baseFile = <<>>
    /\ localFile = <<>>
    /\ rulesPc = "idle"
    /\ loaded = <<>>
    /\ warnings = <<>>
    /\ loadErr = <<>>
    /\ cli = <<>>
    /\ ensureLog = <<>>

\* The apply path is not in use.
ApplyIdle ==
    /\ apIn = <<>>
    /\ apPc = "idle"
    /\ apGroups = <<>>
    /\ apCur = <<>>
    /\ approved = <<>>
    /\ apCalls = <<>>
    /\ apOut = <<>>

\* The snapshot walk is not in use.
WalkIdle ==
    /\ walkTree = <<>>
    /\ walkPc = "idle"
    /\ walkNext = 0
    /\ walkFiles = <<>>
    /\ walkRet = <<>>

\* The toggle list and the route-selection step is not in use.
ToggleIdle ==
    /\ tlRoutes = <<>>
    /\ tlDeps = <<>>
    /\ tlItems = <<>>
    /\ tlCursor = 0
    /\ tlPc = "idle"
    /\ tlLast = <<>>
    /\ tlSelected = <<>>

\* Runner.Execute is not in use.
RunnerIdle ==
    /\ runRoutes = <<>>
    /\ runDeps = <<>>
    /\ runPc = "idle"
    /\ runOrder = <<>>
    /\ runNext = 0
    /\ runOut = <<>>

\* ------------------------------------------------------------------ helpers

Last(s) == s[Len(s)]

Range(s) == {s[i] : i \in 1..Len(s)}

\* All orders in which a Go `range` over a map with key set S may visit it.
Perms(S) == {s \in [1..Cardinality(S) -> S] : \A i, j \in 1..Cardinality(S) : s[i] = s[j] => i = j}

\* strings.TrimSpace on the strings of the model.
TrimSpace(s) ==
    CASE s = "  " -> ""
      [] s = "tidy " -> "tidy"
      [] OTHER -> s

\* nonEmpty(v, fallback)
nonEmpty(v, fallback) == IF TrimSpace(v) = "" THEN fallback ELSE TrimSpace(v)

\* The seed loop of ExecuteTaskPlan: current[f.Path] = f.Content.
RECURSIVE SeedCurrent(_, _)
SeedCurrent(snap, cur) ==
    IF snap = <<>> THEN cur
    ELSE SeedCurrent(Tail(snap),
                     [p \in DOMAIN cur \cup {Head(snap).Path} |->
                        IF p = Head(snap).Path THEN Head(snap).Content ELSE cur[p]])

EmptyMap == [p \in {} |-> ""]

\* Variant of filesForTask that hands out the snapshot's original content.
RECURSIVE filesForTaskFromSnapshot(_, _, _)
filesForTaskFromSnapshot(snap, task, cur) ==
    IF snap = <<>> THEN <<>>
    ELSE IF Head(snap).Path \in Range(task.Files)
         THEN <<[Path |-> Head(snap).Path, Content |-> Head(snap).Content]>>
              \o filesForTaskFromSnapshot(Tail(snap), task, cur)
         ELSE filesForTaskFromSnapshot(Tail(snap), task, cur)

\* filesForTask: the snapshot's files that are in task.Files, in snapshot
\* order, each with the WorkingCopy's content.
RECURSIVE filesForTask(_, _, _)
filesForTask(snap, task, cur) ==
    IF snap = <<>> THEN <<>>
    ELSE IF Head(snap).Path \in Range(task.Files)
         THEN <<[Path |-> Head(snap).Path, Content |-> cur[Head(snap).Path]]>>
              \o filesForTask(Tail(snap), task, cur)
         ELSE filesForTask(Tail(snap), task, cur)

\* ------------------------------------------------------------------ records

\* TaskResult appended when the oracle returns an error.
ErrorResult(task, msg) ==
    [TaskID |-> task.ID, RuleID |-> task.RuleID, ChangedFiles |-> <<>>,
     Applied |-> FALSE, Summary |-> "", Error |-> msg]

\* TaskResult appended when the oracle reports no change.
NoChangeResult(task) ==
    [TaskID |-> task.ID, RuleID |-> task.RuleID, ChangedFiles |-> <<>>,
     Applied |-> FALSE, Summary |-> "no changes", Error |-> ""]

\* TaskResult appended after the change loop kept at least one path.
ChangedResult(task, res, changedPaths, dry) ==
    [TaskID |-> task.ID, RuleID |-> task.RuleID, ChangedFiles |-> changedPaths,
     Applied |-> ~dry, Summary |-> nonEmpty(res.Summary, "task applied"), Error |-> ""]

\* Edit appended for a kept path; Description is "[RuleID] summary".
NewEdit(task, res, path, dry) ==
    [File |-> path,
     Description |-> <<task.RuleID, nonEmpty(res.Summary, "AI project cleanup change")>>,
     Before |-> "project-level AI task", After |-> "updated content",
     Applied |-> ~dry]

\* ProgressEvent handed to onProgress.
Event(file, task, phase, desc) ==
    [File |-> file, RuleID |-> task.RuleID, RuleTitle |-> task.RuleTitle,
     Phase |-> phase, Description |-> desc]

\* The test that sends a successful oracle response to the no-change branch.
IsNoChange(res) == ~res.Changed \/ Cardinality(DOMAIN res.ChangedFiles) = 0

\* Variants of the filter: one without the identity test, one without the
\* known-path test (a missing key reads as the empty string in Go).
KeepAnyKnown(cur, path, next) == path \in DOMAIN cur

KeepIfDifferent(cur, path, next) == path \notin DOMAIN cur \/ next # cur[path]

\* The filter of the change loop: the path is known to the WorkingCopy and
\* the new content differs from the current one.
KeepChange(cur, path, next) == path \in DOMAIN cur /\ next # cur[path]

\* Variants: writes deferred past the task, and writes regardless of dryRun.
NeverPersist(dry) == FALSE

AlwaysPersist(dry) == TRUE

\* Whether a task's changed paths are written to disk.
ShouldPersist(dry) == ~dry

\* Variants in which an error is logged and the loop goes on.
ContinuesOnOracleError == FALSE

ContinuesOnWriteError == FALSE

\* An oracle error ends the run: `return plan, applied, results, fmt.Errorf(...)`.
StopsOnOracleError == TRUE

\* A failed os.WriteFile ends the run: `return plan, applied, results, err`.
StopsOnWriteError == TRUE

\* The change loop over result.ChangedFiles, visited in `order`.
\* acc = [current, changedPaths, edits, events, log].
RECURSIVE ApplyChanges(_, _, _, _, _, _)
ApplyChanges(order, res, task, dry, k, acc) ==
    IF order = <<>> THEN acc
    ELSE LET path == Head(order)
             next == res.ChangedFiles[path]
             edit == NewEdit(task, res, path, dry)
         IN  IF ~KeepChange(acc.current, path, next)
             THEN ApplyChanges(Tail(order), res, task, dry, k, acc)
             ELSE ApplyChanges(Tail(order), res, task, dry, k,
                    [current |-> [p \in DOMAIN acc.current \cup {path} |->
                                     IF p = path THEN next ELSE acc.current[p]],
                     changedPaths |-> Append(acc.changedPaths, path),
                     edits |-> Append(acc.edits, edit),
                     events |-> Append(acc.events, Event(path, task, "changed", edit.Description)),
                     log |-> Append(acc.log, <<k, path, next>>)])

\* What ExecuteTaskPlan returns.
Return(p, a, r, e) == [plan |-> p, applied |-> a, results |-> r, err |-> e]

NotReturned == Return(<<>>, <<>>, <<>>, <<"<running>">>)

\* ------------------------------------------------------------------ inputs

\* Tasks in a list whose run is repeated (the two-run specification).
MaxRerunTasks == 2

TaskAt(k, o) ==
    [ID |-> <<"task", k>>, RuleID |-> <<"rule", k>>, RuleTitle |-> <<"title", k>>,
     Files |-> TaskScopes[((k - 1 + o) % Len(TaskScopes)) + 1]]

TaskLists ==
    UNION {{[k \in 1..n |-> TaskAt(k, o)] : o \in 0..(Len(TaskScopes) - 1)} : n \in 0..MaxTasks}

\* Content every snapshot file starts with.
InitialContent == "c0"

Snapshots ==
    {[i \in 1..Len(SnapPaths) |-> [Path |-> SnapPaths[i], Content |-> InitialContent]]}

\* Successful oracle responses: ProjectTransformResult.
Responses ==
    [Changed : BOOLEAN, Summary : Summaries,
     ChangedFiles : UNION {{f \in [S -> Contents] :
                               UnknownPath \in S => f[UnknownPath] = "c1"} :
                           S \in SUBSET AllPaths}]

DiskOf(snap) ==
    [p \in AllPaths |-> IF \E i \in 1..Len(snap) : snap[i].Path = p
                        THEN (CHOOSE f \in Range(snap) : f.Path = p).Content
                        ELSE Absent]

\* ------------------------------------------------------------------ executor

args == <<snapshot, tasks, dryRun, executor>>

NoFailure == [kind |-> "none", task |-> 0, path |-> ""]

\* The state at the call of ExecuteTaskPlan, before its first statement.
AtEntry ==
    /\ pc = "entry"
    /\ ti = 0
    /\ current = EmptyMap
    /\ plan = <<>>
    /\ applied = <<>>
    /\ results = <<>>
    /\ events = <<>>
    /\ taskFiles = <<>>
    /\ pending = <<>>
    /\ ret = NotReturned
    /\ oracleCalls = <<>>
    /\ changeLog = <<>>
    /\ writeLog = <<>>
    /\ failure = NoFailure
    /\ outcome = <<>>
    /\ sawUnknown = FALSE

Init ==
    /\ snapshot \in Snapshots
    /\ tasks \in TaskLists
    /\ dryRun \in BOOLEAN
    /\ executor \in {"impl", "nil"}
    /\ disk = DiskOf(snapshot)
    /\ AtEntry
    /\ replay = "off"
    /\ memo = <<>>
    /\ prevRet = NotReturned
    /\ PlannerIdle
    /\ RetryIdle
    /\ TransformIdle
    /\ RulesIdle
    /\ ApplyIdle
    /\ WalkIdle
    /\ ToggleIdle
    /\ RunnerIdle

\* A deterministic oracle: in the second of two runs it answers a request it
\* has already seen (same task, same files) as it did the first time.
Allowed(failed, res) ==
    replay = "replay" =>
        \A i \in 1..Len(memo) :
            (memo[i].task = ti /\ memo[i].files = taskFiles)
                => (memo[i].failed = failed /\ memo[i].res = res)

Remember(failed, res) ==
    memo' = IF replay = "record"
            THEN Append(memo, [task |-> ti, files |-> taskFiles, failed |-> failed, res |-> res])
            ELSE memo

NoResponse == [Changed |-> FALSE, Summary |-> "  ", ChangedFiles |-> EmptyMap]

\* executor == nil: return the zero Plan and an error.
RejectNilExecutor ==
    /\ pc = "entry"
    /\ executor = "nil"
    /\ pc' = "done"
    /\ ret' = Return(<<>>, <<>>, <<>>, NilExecutorErr)
    /\ UNCHANGED others
    /\ UNCHANGED <<args, ti, current, disk, plan, applied, results, events, taskFiles,
                   pending, oracleCalls, changeLog, writeLog, failure, outcome,
                   sawUnknown, replay, memo, prevRet>>

\* Seed the WorkingCopy from the snapshot and enter the task loop.
Enter ==
    /\ pc = "entry"
    /\ executor # "nil"
    /\ current' = SeedCurrent(snapshot, EmptyMap)
    /\ ti' = 1
    /\ pc' = "loop"
    /\ UNCHANGED others
    /\ UNCHANGED <<args, disk, plan, applied, results, events, taskFiles, pending, ret,
                   oracleCalls, changeLog, writeLog, failure, outcome, sawUnknown,
                   replay, memo, prevRet>>

\* Top of the loop body: build the oracle's input, emit "running", call the oracle.
StartTask ==
    /\ pc = "loop"
    /\ ti <= Len(tasks)
    /\ taskFiles' = filesForTask(snapshot, tasks[ti], current)
    /\ events' = Append(events, Event("", tasks[ti], "running", <<"executing task", tasks[ti].ID>>))
    /\ oracleCalls' = Append(oracleCalls, ti)
    /\ pc' = "oracle"
    /\ UNCHANGED others
    /\ UNCHANGED <<args, ti, current, disk, plan, applied, results, pending, ret,
                   changeLog, writeLog, failure, outcome, sawUnknown, replay, memo,
                   prevRet>>

\* The loop is exhausted: return plan, applied, results, nil.
Finish ==
    /\ pc = "loop"
    /\ ti > Len(tasks)
    /\ pc' = "done"
    /\ ret' = Return(plan, applied, results, NoError)
    /\ UNCHANGED others
    /\ UNCHANGED <<args, ti, current, disk, plan, applied, results, events, taskFiles,
                   pending, oracleCalls, changeLog, writeLog, failure, outcome,
                   sawUnknown, replay, memo, prevRet>>

\* TransformProject returned an error: record it, emit "error", return.
OracleError ==
    /\ pc = "oracle"
    /\ Allowed(TRUE, NoResponse)
    /\ Remember(TRUE, NoResponse)
    /\ results' = Append(results, ErrorResult(tasks[ti], OracleErrText))
    /\ events' = Append(events, Event("", tasks[ti], "error", OracleErrText))
    /\ failure' = [kind |-> "oracle", task |-> ti, path |-> ""]
    /\ outcome' = Append(outcome, "error")
    /\ IF StopsOnOracleError
       THEN /\ pc' = "done"
            /\ ret' = Return(plan, applied, results',
                             <<"cleanup task failed", tasks[ti].ID, OracleErrText>>)
            /\ ti' = ti
       ELSE /\ pc' = "loop"
            /\ ti' = ti + 1
            /\ ret' = ret
    /\ UNCHANGED others
    /\ UNCHANGED <<args, current, disk, plan, applied, taskFiles, pending, oracleCalls,
                   changeLog, writeLog, sawUnknown, replay, prevRet>>

\* TransformProject succeeded with Changed=false or an empty ChangedFiles.
OracleNoChange ==
    /\ pc = "oracle"
    /\ \E res \in Responses :
         /\ IsNoChange(res)
         /\ Allowed(FALSE, res)
         /\ Remember(FALSE, res)
         /\ sawUnknown' = (sawUnknown \/ UnknownPath \in DOMAIN res.ChangedFiles)
    /\ results' = Append(results, NoChangeResult(tasks[ti]))
    /\ events' = Append(events, Event("", tasks[ti], "no_change", "no changes"))
    /\ outcome' = Append(outcome, "no_change")
    /\ ti' = ti + 1
    /\ pc' = "loop"
    /\ UNCHANGED others
    /\ UNCHANGED <<args, current, disk, plan, applied, taskFiles, pending, ret,
                   oracleCalls, changeLog, writeLog, failure, replay, prevRet>>

\* TransformProject succeeded with changes: run the change loop in the map's
\* iteration order; if it kept a path, record the TaskResult and start writing.
OracleChanged ==
    /\ pc = "oracle"
    /\ \E res \in Responses :
         /\ ~IsNoChange(res)
         /\ Allowed(FALSE, res)
         /\ Remember(FALSE, res)
         /\ sawUnknown' = (sawUnknown \/ UnknownPath \in DOMAIN res.ChangedFiles)
         /\ \E order \in Perms(DOMAIN res.ChangedFiles) :
              LET acc == ApplyChanges(order, res, tasks[ti], dryRun, ti,
                            [current |-> current, changedPaths |-> <<>>, edits |-> <<>>,
                             events |-> <<>>, log |-> <<>>])
              IN  /\ current' = acc.current
                  /\ plan' = plan \o acc.edits
                  /\ applied' = applied \o acc.edits
                  /\ events' = events \o acc.events
                  /\ changeLog' = changeLog \o acc.log
                  /\ IF Len(acc.changedPaths) = 0
                     THEN /\ outcome' = Append(outcome, "all_filtered")
                          /\ ti' = ti + 1
                          /\ pc' = "loop"
                          /\ UNCHANGED <<results, pending>>
                     ELSE /\ outcome' = Append(outcome, "changed")
                          /\ results' = Append(results,
                                 ChangedResult(tasks[ti], res, acc.changedPaths, dryRun))
                          /\ IF ShouldPersist(dryRun)
                             THEN /\ pending' = acc.changedPaths
                                  /\ pc' = "write"
                                  /\ ti' = ti
                             ELSE /\ pending' = <<>>
                                  /\ pc' = "loop"
                                  /\ ti' = ti + 1
    /\ UNCHANGED others
    /\ UNCHANGED <<args, disk, taskFiles, ret, oracleCalls, writeLog, failure, replay,
                   prevRet>>

\* os.WriteFile(path, current[path]) succeeds for the next changed path.
WriteOk ==
    /\ pc = "write"
    /\ pending # <<>>
    /\ disk' = [disk EXCEPT ![Head(pending)] = current[Head(pending)]]
    /\ writeLog' = Append(writeLog, <<ti, Head(pending), current[Head(pending)]>>)
    /\ pending' = Tail(pending)
    /\ IF Tail(pending) = <<>>
       THEN pc' = "loop" /\ ti' = ti + 1
       ELSE pc' = "write" /\ ti' = ti
    /\ UNCHANGED others
    /\ UNCHANGED <<args, current, plan, applied, results, events, taskFiles, ret,
                   oracleCalls, changeLog, failure, outcome, sawUnknown, replay, memo,
                   prevRet>>

\* os.WriteFile fails for the next changed path (the file keeps the content
\* it had): return the error at once.
WriteFail ==
    /\ pc = "write"
    /\ pending # <<>>
    /\ failure' = [kind |-> "write", task |-> ti, path |-> Head(pending)]
    /\ IF StopsOnWriteError
       THEN /\ pc' = "done"
            /\ ret' = Return(plan, applied, results, WriteErr)
            /\ UNCHANGED <<ti, pending>>
       ELSE /\ pending' = Tail(pending)
            /\ IF Tail(pending) = <<>>
               THEN pc' = "loop" /\ ti' = ti + 1
               ELSE pc' = "write" /\ ti' = ti
            /\ ret' = ret
    /\ UNCHANGED others
    /\ UNCHANGED <<args, current, disk, plan, applied, results, events, taskFiles,
                   oracleCalls, changeLog, writeLog, outcome, sawUnknown, replay, memo,
                   prevRet>>

Next ==
    \/ RejectNilExecutor
    \/ Enter
    \/ StartTask
    \/ Finish
    \/ OracleError
    \/ OracleNoChange
    \/ OracleChanged
    \/ WriteOk
    \/ WriteFail

Spec == Init /\ [][Next]_vars

\* ------------------------------------------------------------------ two runs

\* Two consecutive dry runs over the same snapshot, tasks and rules, against
\* an oracle that answers equal requests equally.
InitRerun ==
    /\ snapshot \in Snapshots
    /\ tasks \in {t \in TaskLists : Len(t) \in 1..MaxRerunTasks}
    /\ dryRun = TRUE
    /\ executor = "impl"
    /\ disk = DiskOf(snapshot)
    /\ AtEntry
    /\ replay = "record"
    /\ memo = <<>>
    /\ prevRet = NotReturned
    /\ PlannerIdle
    /\ RetryIdle
    /\ TransformIdle
    /\ RulesIdle
    /\ ApplyIdle
    /\ WalkIdle
    /\ ToggleIdle
    /\ RunnerIdle

\* The first run has returned: call ExecuteTaskPlan again with the same arguments.
Rerun ==
    /\ pc = "done"
    /\ replay = "record"
    /\ prevRet' = ret
    /\ replay' = "replay"
    /\ pc' = "entry"
    /\ ti' = 0
    /\ current' = EmptyMap
    /\ plan' = <<>>
    /\ applied' = <<>>
    /\ results' = <<>>
    /\ events' = <<>>
    /\ taskFiles' = <<>>
    /\ pending' = <<>>
    /\ ret' = NotReturned
    /\ oracleCalls' = <<>>
    /\ changeLog' = <<>>
    /\ writeLog' = <<>>
    /\ failure' = NoFailure
    /\ outcome' = <<>>
    /\ sawUnknown' = FALSE
    /\ UNCHANGED others
    /\ UNCHANGED <<args, disk, memo>>

NextRerun ==
    \/ Enter
    \/ StartTask
    \/ Finish
    \/ OracleError
    \/ OracleNoChange
    \/ OracleChanged
    \/ Rerun

SpecRerun == InitRerun /\ [][NextRerun]_vars

\* ------------------------------------------------------------------ claims

SnapshotPaths == {snapshot[i].Path : i \in 1..Len(snapshot)}

SnapshotContent(p) == (CHOOSE f \in Range(snapshot) : f.Path = p).Content

\* The content the entries of `log` (a changeLog or writeLog) leave path p
\* with: that of the last entry for p, or the snapshot's when there is none.
LastLogged(log, p) ==
    LET idx == {i \in 1..Len(log) : log[i][2] = p}
    IN  IF idx = {} THEN SnapshotContent(p)
        ELSE log[CHOOSE i \in idx : \A j \in idx : j <= i][3]

Returned == ret # NotReturned

\* C1: when the oracle fails on task k, a TaskResult for task k with
\* Applied=false and a non-empty Error is the last TaskResult, the call
\* returns a non-nil error with the plan, edits and results accumulated so
\* far, the oracle was invoked for tasks 1..k only, and nothing was changed
\* in the WorkingCopy or on disk by task k or any later task.
C1_OracleErrorAborts ==
    failure.kind = "oracle" =>
        LET k == failure.task
        IN  /\ pc = "done"
            /\ results # <<>>
            /\ Last(results).TaskID = tasks[k].ID
            /\ Last(results).RuleID = tasks[k].RuleID
            /\ Last(results).Applied = FALSE
            /\ Last(results).Error # ""
            /\ Returned
            /\ ret.err # NoError
            /\ ret.plan = plan
            /\ ret.applied = applied
            /\ ret.results = results
            /\ Len(ret.plan) = Len(changeLog)
            /\ oracleCalls = [i \in 1..k |-> i]
            /\ \A i \in 1..Len(changeLog) : changeLog[i][1] < k
            /\ \A i \in 1..Len(writeLog) : writeLog[i][1] < k

\* The oracle fails on task 2 of 3 after task 1 changed and wrote files.
C1_Witness ==
    /\ failure.kind = "oracle"
    /\ failure.task = 2
    /\ Len(tasks) = 3
    /\ ~dryRun
    /\ writeLog # <<>>
    /\ pc = "done"

\* The entries of `log` made by tasks before task k.
Before(log, k) ==
    LET Earlier(e) == e[1] < k
    IN  SelectSeq(log, Earlier)

\* C2: in a non-dry run, whenever the oracle is invoked for a task, and when
\* an oracle error has aborted the run, every WorkingCopy update of the
\* earlier tasks has been written (same paths, contents and order), and each
\* changed file holds on disk the WorkingCopy's content.  When a failed write
\* has aborted the run, every update of the tasks before the failing one has
\* been written, and each file they changed holds the last content written
\* to it.
C2_ChangesPersistedBeforeNextOracle ==
    ~dryRun =>
        /\ (pc = "oracle" \/ failure.kind = "oracle") =>
              /\ writeLog = changeLog
              /\ \A i \in 1..Len(changeLog) :
                    LET p == changeLog[i][2]
                    IN  /\ disk[p] = LastLogged(changeLog, p)
                        /\ disk[p] = current[p]
        /\ failure.kind = "write" =>
              /\ Before(writeLog, failure.task) = Before(changeLog, failure.task)
              /\ \A i \in 1..Len(Before(changeLog, failure.task)) :
                    LET p == changeLog[i][2]
                    IN  disk[p] = LastLogged(writeLog, p)

\* A later task aborts a non-dry run after two WorkingCopy updates.
C2_Witness ==
    /\ ~dryRun
    /\ failure.kind = "oracle"
    /\ failure.task >= 2
    /\ Len(changeLog) >= 2
    /\ disk[changeLog[1][2]] # InitialContent

\* C3: the files handed to the oracle for task k are the snapshot's files in
\* the task's scope, in snapshot order, each with the content the updates of
\* tasks 1..k-1 left it with (the snapshot's content only if none touched
\* it), in a dry run as in a real one.
C3_OracleReadsWorkingCopy ==
    pc = "oracle" =>
        LET InScope(f) == f.Path \in Range(tasks[ti].Files)
            scoped == SelectSeq(snapshot, InScope)
        IN  taskFiles = [i \in 1..Len(scoped) |->
                            [Path |-> scoped[i].Path,
                             Content |-> LastLogged(changeLog, scoped[i].Path)]]

\* In a dry run the oracle is handed, for a later task, a content that an
\* earlier task produced.
C3_Witness ==
    /\ dryRun
    /\ pc = "oracle"
    /\ ti >= 2
    /\ \E i \in 1..Len(taskFiles) : taskFiles[i].Content # SnapshotContent(taskFiles[i].Path)

\* C4: in a dry run the disk never changes and every Edit and every
\* TaskResult has Applied=false.
C4_DryRunWritesNothing ==
    dryRun =>
        /\ disk = DiskOf(snapshot)
        /\ writeLog = <<>>
        /\ \A i \in 1..Len(plan) : plan[i].Applied = FALSE
        /\ \A i \in 1..Len(applied) : applied[i].Applied = FALSE
        /\ \A i \in 1..Len(results) : results[i].Applied = FALSE

\* A dry run has returned with two Edits and a TaskResult that lists changed files.
C4_Witness ==
    /\ dryRun
    /\ pc = "done"
    /\ Len(plan) >= 2
    /\ \E i \in 1..Len(results) : results[i].ChangedFiles # <<>>
    /\ \E p \in SnapshotPaths : current[p] # disk[p]

\* C5: a task whose oracle response had Changed=true but whose every
\* (path, content) pair was skipped by the filter has a TaskResult with
\* Applied=false and Summary="no changes", a "no_change" event, and no Edit.
C5_AllFilteredIsNoChange ==
    \A c \in 1..Len(outcome) :
        outcome[c] = "all_filtered" =>
            LET task == tasks[oracleCalls[c]]
            IN  /\ \E i \in 1..Len(results) :
                      /\ results[i].TaskID = task.ID
                      /\ results[i].Applied = FALSE
                      /\ results[i].Summary = "no changes"
                /\ \E i \in 1..Len(events) :
                      /\ events[i].RuleID = task.RuleID
                      /\ events[i].Phase = "no_change"
                /\ \A i \in 1..Len(changeLog) : changeLog[i][1] # oracleCalls[c]

\* C6: once an oracle call has been handled there is exactly one TaskResult
\* per oracle call, in task order, and a return without error carries one
\* TaskResult per task, the i-th with the i-th task's TaskID and RuleID.
C6_OneResultPerTask ==
    /\ pc # "oracle" =>
          /\ Len(results) = Len(oracleCalls)
          /\ \A i \in 1..Len(results) :
                /\ results[i].TaskID = tasks[oracleCalls[i]].ID
                /\ results[i].RuleID = tasks[oracleCalls[i]].RuleID
    /\ (Returned /\ ret.err = NoError) =>
          /\ Len(ret.results) = Len(tasks)
          /\ \A i \in 1..Len(tasks) :
                /\ ret.results[i].TaskID = tasks[i].ID
                /\ ret.results[i].RuleID = tasks[i].RuleID

\* The paths of the Edits, "changed" events and ChangedFiles a step adds.
NewEditFiles == [i \in 1..(Len(plan') - Len(plan)) |-> plan'[Len(plan) + i].File]

NewChangedEventFiles ==
    LET added == SubSeq(events', Len(events) + 1, Len(events'))
        IsChanged(e) == e.Phase = "changed"
        changed == SelectSeq(added, IsChanged)
    IN  [i \in 1..Len(changed) |-> changed[i].File]

\* C7: every step of the change loop adds Edits only for paths that were
\* keys of the WorkingCopy and whose content it replaced by a different one,
\* one Edit per path; the "changed" events and the TaskResult's ChangedFiles
\* name exactly those paths, so a skipped path appears in none of them.
C7_EditsOnlyForRealChanges ==
    [][pc = "oracle" =>
          /\ Len(plan') >= Len(plan)
          /\ \A i \in 1..Len(NewEditFiles) :
                /\ NewEditFiles[i] \in DOMAIN current
                /\ current'[NewEditFiles[i]] # current[NewEditFiles[i]]
                /\ \A j \in 1..Len(NewEditFiles) : NewEditFiles[j] = NewEditFiles[i] => j = i
          /\ NewChangedEventFiles = NewEditFiles
          /\ SubSeq(applied', Len(applied) + 1, Len(applied'))
                = SubSeq(plan', Len(plan) + 1, Len(plan'))
          /\ IF Len(results') > Len(results)
             THEN Last(results').ChangedFiles = NewEditFiles
             ELSE NewEditFiles = <<>>]_vars

\* The filter skipped a whole response for identical content (no unknown path
\* was ever returned) in a run that also produced an Edit.
C7_Witness ==
    /\ ~sawUnknown
    /\ \E c \in 1..Len(outcome) : outcome[c] = "all_filtered"
    /\ Len(plan) >= 1

\* C8: from the seeding on, the WorkingCopy's paths are exactly the snapshot's.
C8_WorkingCopyKeysFixed ==
    (pc \in {"loop", "oracle", "write"} \/ (pc = "done" /\ executor = "impl"))
        => DOMAIN current = SnapshotPaths

\* The oracle returned a path outside the snapshot along with a real change.
C8_Witness ==
    /\ sawUnknown
    /\ pc = "done"
    /\ Len(plan) >= 1
    /\ UnknownPath \notin DOMAIN current

\* C9: the second of two dry runs over the same snapshot, tasks and rules
\* with a deterministic oracle returns the Plan the first returned.
C9_DryRunsRepeatPlan ==
    (replay = "replay" /\ pc = "done") => ret.plan = prevRet.plan

NonAlnum == {"_", " ", "-", ".", "(", ")", "{", "}", "\n", "\t"}

\* unicode.IsSpace for the characters above.
Whitespace == {" ", "\n", "\t"}

\* strings.ToLower on one token.
ToLowerToken(t) ==
    CASE t = "Redundant" -> "redundant"
      [] t = "Guard" -> "guard"
      [] t = "Dry" -> "dry"
      [] t = "Env" -> "env"
      [] t = "Getenv" -> "getenv"
      [] t = "A" -> "a"
      [] t = "B" -> "b"
      [] t = "Yes" -> "yes"
      [] t = "GO" -> "go"
      [] t = "Client" -> "client"
      [] t = "Timeout" -> "timeout"
      [] OTHER -> t

ToLower(s) == [i \in 1..Len(s) |-> ToLowerToken(s[i])]

RECURSIVE TrimLeft(_, _)
TrimLeft(s, cutset) ==
    IF s # <<>> /\ Head(s) \in cutset THEN TrimLeft(Tail(s), cutset) ELSE s

RECURSIVE TrimRight(_, _)
TrimRight(s, cutset) ==
    IF s # <<>> /\ s[Len(s)] \in cutset
    THEN TrimRight(SubSeq(s, 1, Len(s) - 1), cutset)
    ELSE s

\* strings.Trim(s, cutset); strings.TrimSpace is Trim(s, Whitespace).
Trim(s, cutset) == TrimRight(TrimLeft(s, cutset), cutset)

\* regexp `[^a-z0-9]+` replaced by "-": every maximal run of tokens outside
\* [a-z0-9] becomes one "-".
RECURSIVE ReplaceNonAlnumRuns(_)
ReplaceNonAlnumRuns(s) ==
    IF s = <<>> THEN <<>>
    ELSE IF Head(s) \in NonAlnum
         THEN <<"-">> \o ReplaceNonAlnumRuns(TrimLeft(s, NonAlnum))
         ELSE <<Head(s)>> \o ReplaceNonAlnumRuns(Tail(s))

\* strings.Contains(s, pattern).
Contains(s, pattern) ==
    \E i \in 1..(Len(s) - Len(pattern) + 1) : SubSeq(s, i, i + Len(pattern) - 1) = pattern

\* strings.Count(s, pattern): non-overlapping occurrences.
RECURSIVE Count(_, _)
Count(s, pattern) ==
    IF Len(s) < Len(pattern) THEN 0
    ELSE IF SubSeq(s, 1, Len(pattern)) = pattern
         THEN 1 + Count(SubSeq(s, Len(pattern) + 1, Len(s)), pattern)
         ELSE Count(Tail(s), pattern)

Digit(d) == <<"0", "1", "2", "3", "4", "5", "6", "7", "8", "9">>[d + 1]

RECURSIVE Digits(_)
Digits(n) == IF n < 10 THEN <<Digit(n)>> ELSE Digits(n \div 10) \o <<Digit(n % 10)>>

RECURSIVE ZeroPad(_, _)
ZeroPad(s, width) == IF Len(s) >= width THEN s ELSE ZeroPad(<<"0">> \o s, width)

\* fmt.Sprintf("%03d", n) for n >= 0.
Sprintf03d(n) == ZeroPad(Digits(n), 3)

\* ------------------------------------------------------------------ planner

\* The file cap of a task: capTaskFiles(out, 24).
MaxTaskFiles == 24

sanitizeID(s) ==
    LET t == Trim(ReplaceNonAlnumRuns(ToLower(Trim(s, Whitespace))), {"-"})
    IN  IF t = <<>> THEN <<"task">> ELSE t

capTaskFilesOff(files, max) == files

capTaskFiles(files, max) ==
    IF Len(files) <= max THEN files ELSE SubSeq(files, 1, max)

PathsOf(files) == [i \in 1..Len(files) |-> files[i].Path]

\* The text the keyword dispatch looks at.
ruleText(r) ==
    ToLower(r.ID \o <<" ">> \o r.Title \o <<" ">> \o r.Description \o <<" ">> \o r.Details)

\* The switch of selectTaskFiles: the first case whose keyword the text holds
\* decides; c is the lower-cased content of the file.
include(text, c) ==
    IF Contains(text, <<"redundant", " ", "guard">>)
    THEN Contains(c, <<"if", " ", "true">>) \/ Contains(c, <<"if", " ", "(", "true", ")">>)
    ELSE IF Contains(text, <<"dry">>) \/ Contains(text, <<"duplicate">>)
    THEN Count(c, <<"func", " ">>) > 1 \/ Count(c, <<"function", " ">>) > 1
    ELSE IF Contains(text, <<"error", " ", "handling">>)
    THEN Contains(c, <<" ", "err">>) \/ Contains(c, <<"catch">>)
    ELSE IF Contains(text, <<"environment", " ", "variable">>)
            \/ Contains(text, <<"gate", " ", "features">>)
    THEN Contains(c, <<"os", ".", "Getenv">>) \/ Contains(c, <<"process", ".", "env">>)
    ELSE IF Contains(text, <<"split">>) /\ Contains(text, <<"function">>)
    THEN Count(c, <<"\n">>) > 80
    ELSE IF Contains(text, <<"naming">>)
    THEN TRUE
    ELSE IF Contains(text, <<"simplify", " ", "complex">>)
            \/ Contains(text, <<"reduce", " ", "complexity">>)
    THEN Count(c, <<"if", " ">>) > 3 \/ Count(c, <<"switch", " ">>) > 0
    ELSE IF Contains(text, <<"expensive">>) \/ Contains(text, <<"performance">>)
            \/ Contains(text, <<"hot", " ", "path">>)
    THEN Count(c, <<"for", " ">>) > 1
    ELSE TRUE

matchedReversed(files, r) ==
    LET hit == SelectSeq(files, LAMBDA f : include(ruleText(r), ToLower(f.Content)))
    IN  [i \in 1..Len(hit) |-> hit[Len(hit) + 1 - i].Path]

\* The files the heuristic picked, in snapshot order.
matched(files, r) ==
    PathsOf(SelectSeq(files, LAMBDA f : include(ruleText(r), ToLower(f.Content))))

keepEmpty(out, files) == out

\* A heuristic that matched nothing falls back to every file.
orAllFiles(out, files) == IF Len(out) = 0 THEN PathsOf(files) ELSE out

selectTaskFiles(files, r) ==
    capTaskFiles(orAllFiles(matched(files, r), files), MaxTaskFiles)

taskIDWithoutPosition(i, r) == <<"task", "-">> \o Sprintf03d(1) \o <<"-">> \o sanitizeID(r.ID)

\* fmt.Sprintf("task-%03d-%s", i+1, sanitizeID(r.ID)); i is the 1-based
\* position here.
taskID(i, r) == <<"task", "-">> \o Sprintf03d(i) \o <<"-">> \o sanitizeID(r.ID)

RECURSIVE planFrom(_, _, _)
planFrom(files, selectedRules, i) ==
    IF i > Len(selectedRules) THEN <<>>
    ELSE LET r == selectedRules[i]
             targets == selectTaskFiles(files, r)
         IN  (IF Len(targets) = 0
              THEN <<>>
              ELSE <<[ID |-> taskID(i, r), RuleID |-> r.ID, RuleTitle |-> r.Title,
                      Description |-> r.Description, Files |-> targets]>>)
             \o planFrom(files, selectedRules, i + 1)

BuildTaskPlan(files, selectedRules) == planFrom(files, selectedRules, 1)

\* ------------------------------------------------------------------ planner inputs

\* Rules per call of BuildTaskPlan.
MaxPlanRules == 2

PlainContent == <<"x">>

\* Contents some heuristic reacts to.
HitContents ==
    {<<"if", " ", "true", " ", "{", "}">>,
     <<"os", ".", "Getenv", "(", ")">>,
     <<"process", ".", "env">>,
     <<"func", " ", "a", "\n", "func", " ", "b">>}

\* Snapshot sizes: none, few, and around the cap.
PlanSizes == {0, 1, 2, MaxTaskFiles, MaxTaskFiles + 1, MaxTaskFiles + 2}

\* Which positions of a snapshot of n files hold the hit content.
HitPositions(n) == {{}, {1} \cap (1..n), {n} \cap (1..n), 1..n}

\* Snapshots whose files take their contents from a list, in order.
SnapshotOf(contents) ==
    [i \in 1..Len(contents) |-> [Path |-> <<"f", i>>, Content |-> contents[i]]]

\* Snapshots in which both ways of reading the environment occur.
MixedSnapshots ==
    {SnapshotOf(<<<<"process", ".", "env">>, <<"os", ".", "Getenv", "(", ")">>>>),
     SnapshotOf(<<<<"os", ".", "Getenv", "(", ")">>, PlainContent, <<"process", ".", "env">>>>)}

PlanSnapshots ==
    MixedSnapshots \cup
    UNION {{[i \in 1..n |-> [Path |-> <<"f", i>>,
                             Content |-> IF i \in H THEN hit ELSE PlainContent]] :
              H \in HitPositions(n), hit \in HitContents} : n \in PlanSizes}

PlanRule(id, title) ==
    [ID |-> id, Title |-> title, Description |-> <<"about">>, Details |-> <<"how">>]

PlanRuleCatalogue ==
    {PlanRule(<<"Guard", "_", "_", "7">>, <<"Redundant", " ", "Guard">>),
     PlanRule(<<" ", "gate", "-", "Env", " ">>, <<"environment", " ", "variable">>),
     PlanRule(<<"_", "-">>, <<"misc">>),
     PlanRule(<<"Dry">>, <<"misc">>)}

PlanRuleLists == UNION {[1..n -> PlanRuleCatalogue] : n \in 0..MaxPlanRules}

\* The executor is not in use.
ExecutorIdle ==
    /\ snapshot = <<>>
    /\ tasks = <<>>
    /\ dryRun = TRUE
    /\ executor = "nil"
    /\ disk = DiskOf(<<>>)
    /\ AtEntry
    /\ replay = "off"
    /\ memo = <<>>
    /\ prevRet = NotReturned

\* The variables BuildTaskPlan leaves alone.
notPlanner == <<executorVars, retryVars, transformVars, rulesVars, applyVars, walkVars, toggleVars, runnerVars>>

InitPlanner ==
    /\ ExecutorIdle
    /\ planFiles \in PlanSnapshots
    /\ planRules \in PlanRuleLists
    /\ planPc = "call"
    /\ planOut = <<>>
    /\ planAgain = <<>>
    /\ RetryIdle
    /\ TransformIdle
    /\ RulesIdle
    /\ ApplyIdle
    /\ WalkIdle
    /\ ToggleIdle
    /\ RunnerIdle

\* tasks := BuildTaskPlan(files, selectedRules)
CallBuildTaskPlan ==
    /\ planPc = "call"
    /\ planOut' = BuildTaskPlan(planFiles, planRules)
    /\ planPc' = "once"
    /\ UNCHANGED <<planFiles, planRules, planAgain>>
    /\ UNCHANGED notPlanner

\* The same call again, with the same arguments.
CallBuildTaskPlanAgain ==
    /\ planPc = "once"
    /\ planAgain' = BuildTaskPlan(planFiles, planRules)
    /\ planPc' = "twice"
    /\ UNCHANGED <<planFiles, planRules, planOut>>
    /\ UNCHANGED notPlanner

NextPlanner ==
    \/ CallBuildTaskPlan
    \/ CallBuildTaskPlanAgain

SpecPlanner == InitPlanner /\ [][NextPlanner]_vars

\* ------------------------------------------------------------------ planner claims

PlanReturned == planPc \in {"once", "twice"}

\* The heuristic of rule r matched no file of the snapshot.
ZeroMatch(r) == matched(planFiles, r) = <<>>

\* C11: every Task returned by BuildTaskPlan has at most 24 files, and for a
\* non-empty snapshot no returned Task has zero files.
C11_TaskFilesBounded ==
    PlanReturned =>
        \A k \in 1..Len(planOut) :
            /\ Len(planOut[k].Files) <= 24
            /\ (Len(planFiles) > 0 => Len(planOut[k].Files) > 0)

\* A snapshot above the cap: one task was truncated to 24 files, and one
\* task got its files from the zero-match fallback.
C11_Witness ==
    /\ PlanReturned
    /\ Len(planFiles) > 24
    /\ \E k \in 1..Len(planOut) : Len(planOut[k].Files) = 24
    /\ \E k \in 1..Len(planRules) : ZeroMatch(planRules[k])

\* C12: for a non-empty snapshot BuildTaskPlan returns exactly one Task per
\* rule, in rule order, whatever the keyword, the heuristic's matches or the
\* truncation.
C12_OneTaskPerRule ==
    (PlanReturned /\ Len(planFiles) > 0) =>
        /\ Len(planOut) = Len(planRules)
        /\ \A k \in 1..Len(planOut) :
              /\ planOut[k].RuleID = planRules[k].ID
              /\ planOut[k].RuleTitle = planRules[k].Title

\* Two rules over a snapshot above the cap: the first rule's heuristic
\* matches nothing, the second rule hits no keyword at all.
C12_Witness ==
    /\ PlanReturned
    /\ Len(planFiles) > 24
    /\ Len(planRules) = 2
    /\ ZeroMatch(planRules[1])
    /\ planRules[1].Title = <<"Redundant", " ", "Guard">>
    /\ planRules[2].Title = <<"misc">>
    /\ planRules[2].ID = <<"_", "-">>
    /\ Len(planOut) = 2

\* The lower-cased words (runs of letters and digits) of a string, in order.
WordsOf(s) == SelectSeq(ToLower(s), LAMBDA t : t \notin NonAlnum)

RECURSIVE JoinWithDash(_)
JoinWithDash(ws) ==
    IF Len(ws) <= 1 THEN ws ELSE <<Head(ws), "-">> \o JoinWithDash(Tail(ws))

\* What a sanitized rule ID looks like: lower-cased, one "-" for every run of
\* other characters between two words, "task" when no word is left.
Sanitized(id) == IF WordsOf(id) = <<>> THEN <<"task">> ELSE JoinWithDash(WordsOf(id))

MaxAttempts == 3

\* Errors of http.Client.Do: the sentinel the error wraps (errors.Is) and its
\* text.  The context of a call is cancelled only by its deadline, so no
\* error wraps context.Canceled.
ErrDeadline ==
    [is |-> "context.DeadlineExceeded", msg |-> <<"context", " ", "deadline", " ", "exceeded">>]
ErrClientTimeout ==
    [is |-> "none", msg |-> <<"Client", ".", "Timeout", " ", "exceeded">>]
ErrTemporarilyUnavailable ==
    [is |-> "none", msg |-> <<"resource", " ", "temporarily", " ", "unavailable">>]
ErrConnectionRefused ==
    [is |-> "none", msg |-> <<"connect", ":", " ", "connection", " ", "refused">>]

TransportErrors ==
    {ErrDeadline, ErrClientTimeout, ErrTemporarilyUnavailable, ErrConnectionRefused}

isRetryable(err) ==
    \/ err.is \in {"context.DeadlineExceeded", "context.Canceled"}
    \/ LET msg == ToLower(err.msg)
       IN  \/ Contains(msg, <<"timeout">>)
           \/ Contains(msg, <<"deadline", " ", "exceeded">>)
           \/ Contains(msg, <<"temporarily", " ", "unavailable">>)

\* Status codes outside 200..299 a response may carry.
NonSuccessCodes == {302, 400, 429, 500, 503}

retriesEveryStatus(code) == TRUE

\* "Retry on 5xx, otherwise stop": the status test is resp.StatusCode < 500.
retriesStatus(code) == ~(code < 500)

oneSecondDelay(n) == 1

\* time.Sleep(time.Duration(attempt) * time.Second), in seconds.
retryDelay(n) == n

\* The zero ProjectTransformResult.
ZeroResult == [Changed |-> FALSE, Summary |-> "", ChangedFiles |-> EmptyMap]

\* Completion texts (choices[0].message.content): whether json.Unmarshal
\* accepts the text, and the cleanupProjectLLMOutput it decodes to.
LLMOutputs ==
    {[Changed |-> TRUE, Summary |-> "tidy ",
      Files |-> <<[Path |-> "a.go", Content |-> "c1"], [Path |-> "  ", Content |-> "c1"]>>],
     [Changed |-> TRUE, Summary |-> "  ", Files |-> <<>>]}

NotJSON == [json |-> FALSE, out |-> [Changed |-> FALSE, Summary |-> "", Files |-> <<>>]]

CompletionTexts == {NotJSON} \cup {[json |-> TRUE, out |-> o] : o \in LLMOutputs}

\* The loop of transformBatch that fills changedFiles from out.Files.
RECURSIVE collectFiles(_, _)
collectFiles(fs, acc) ==
    IF fs = <<>> THEN acc
    ELSE LET p == TrimSpace(Head(fs).Path)
         IN  IF p = "" THEN collectFiles(Tail(fs), acc)
             ELSE collectFiles(Tail(fs),
                               [q \in DOMAIN acc \cup {p} |->
                                  IF q = p THEN Head(fs).Content ELSE acc[q]])

\* What transformBatch returns once the retry loop has handed it the text.
decodeCompletion(text) ==
    IF ~text.json
    THEN [res |-> ZeroResult, err |-> <<"parse cleanup JSON output">>]
    ELSE LET changedFiles == collectFiles(text.out.Files, EmptyMap)
         IN  [res |-> [Changed |-> DOMAIN changedFiles # {},
                       Summary |-> TrimSpace(text.out.Summary),
                       ChangedFiles |-> changedFiles],
              err |-> NoError]

InitRetry ==
    /\ ExecutorIdle
    /\ PlannerIdle
    /\ attempt = 1
    /\ httpLog = <<>>
    /\ sleeps = <<>>
    /\ rtPc = "loop"
    /\ rtRet = <<>>
    /\ TransformIdle
    /\ RulesIdle
    /\ ApplyIdle
    /\ WalkIdle
    /\ ToggleIdle
    /\ RunnerIdle

\* The variables the oracle client's retry loop leaves alone.
notRetry == <<executorVars, plannerVars, transformVars, rulesVars, applyVars, walkVars, toggleVars, runnerVars>>

\* An attempt failed with err: return it when the failure is not retried or
\* this was the last attempt, else sleep and go round the loop.
failedAttempt(entry, err, retried) ==
    /\ httpLog' = Append(httpLog, entry)
    /\ IF ~retried \/ attempt = MaxAttempts
       THEN /\ rtPc' = "returned"
            /\ rtRet' = [res |-> ZeroResult, err |-> err]
            /\ UNCHANGED <<attempt, sleeps>>
       ELSE /\ sleeps' = Append(sleeps, [after |-> attempt, seconds |-> retryDelay(attempt)])
            /\ attempt' = attempt + 1
            /\ UNCHANGED <<rtPc, rtRet>>
    /\ UNCHANGED notRetry

\* e.client.Do(req) returns an error.
TransportFails ==
    /\ rtPc = "loop"
    /\ \E e \in TransportErrors :
          failedAttempt([kind |-> "transport", err |-> e], e.msg, isRetryable(e))

\* The response has a status outside 200..299.
NonSuccessStatus ==
    /\ rtPc = "loop"
    /\ \E code \in NonSuccessCodes :
          failedAttempt([kind |-> "status", code |-> code], <<"OpenAI HTTP", code>>,
                        retriesStatus(code))

\* A 2xx response whose body does not decode.
UndecodableBody ==
    /\ rtPc = "loop"
    /\ failedAttempt([kind |-> "decode"], <<"decode OpenAI response">>, TRUE)

\* A 2xx response whose body holds an error object.
ErrorObject ==
    /\ rtPc = "loop"
    /\ failedAttempt([kind |-> "api_error"], <<"OpenAI API error", ":", "overloaded">>, TRUE)

\* A 2xx response without an error object and without choices.
NoChoices ==
    /\ rtPc = "loop"
    /\ failedAttempt([kind |-> "no_choices"], <<"OpenAI returned no choices">>, TRUE)

\* A 2xx response with a choice: the loop returns its text and transformBatch
\* decodes it.
Completion ==
    /\ rtPc = "loop"
    /\ \E text \in CompletionTexts :
          /\ httpLog' = Append(httpLog, [kind |-> "ok", text |-> text])
          /\ rtRet' = decodeCompletion(text)
    /\ rtPc' = "returned"
    /\ UNCHANGED <<attempt, sleeps>>
    /\ UNCHANGED notRetry

NextRetry ==
    \/ TransportFails
    \/ NonSuccessStatus
    \/ UndecodableBody
    \/ ErrorObject
    \/ NoChoices
    \/ Completion

\* Every HTTP attempt ends (the client has a timeout), so the loop always
\* takes its next step.
SpecRetry == InitRetry /\ [][NextRetry]_vars /\ WF_vars(NextRetry)

\* ------------------------------------------------------------------ retry claims

BatchReturned == rtPc = "returned"

\* Attempt i of the call was followed by another attempt, or will be.
Retried(i) ==
    /\ i < 3
    /\ IF BatchReturned THEN Len(httpLog) > i ELSE attempt > i

\* Attempt i was the last one and the call returned an error.
Terminal(i) ==
    /\ i = Len(httpLog)
    /\ BatchReturned
    /\ rtRet.err # NoError

RetryWaits ==
    /\ Len(httpLog) <= 3
    /\ rtPc = "loop" => (attempt = Len(httpLog) + 1 /\ attempt <= 3)
    /\ Len(sleeps) = (IF BatchReturned THEN Len(httpLog) - 1 ELSE Len(httpLog))
    /\ \A k \in 1..Len(sleeps) :
          /\ k < 3
          /\ sleeps[k].after = k
          /\ sleeps[k].seconds = k

\* C14: whatever the transport and HTTP outcomes are, the client makes at
\* most 3 HTTP attempts per batch and then returns a result or an error; it
\* waits k seconds after a failed attempt k < 3 that is retried and never
\* waits after the final attempt.
C14_AtMostThreeAttempts == []RetryWaits /\ <>BatchReturned

\* Three failed attempts: two waits, of 1 and 2 seconds, and an error.
C14_Witness ==
    /\ BatchReturned
    /\ Len(httpLog) = 3
    /\ sleeps = <<[after |-> 1, seconds |-> 1], [after |-> 2, seconds |-> 2]>>
    /\ rtRet.err # NoError

\* The transport errors the claim calls retryable: timeout, deadline
\* exceeded, temporarily unavailable.
RetryableKinds == {ErrDeadline, ErrClientTimeout, ErrTemporarilyUnavailable}

\* C15: an HTTP 4xx response ends the batch with an error and is not retried;
\* an HTTP 5xx response or a timeout / deadline-exceeded / temporarily-
\* unavailable transport error on attempt 1 or 2 is followed by another
\* attempt; any other transport error is terminal on its attempt.
C15_RetryClassification ==
    \A i \in 1..Len(httpLog) :
        LET a == httpLog[i]
        IN  /\ (a.kind = "status" /\ a.code \in 400..499) => Terminal(i)
            /\ (a.kind = "status" /\ a.code \in 500..599 /\ i \in {1, 2}) => Retried(i)
            /\ (a.kind = "transport" /\ a.err \in RetryableKinds /\ i \in {1, 2}) => Retried(i)
            /\ (a.kind = "transport" /\ a.err \notin RetryableKinds) => Terminal(i)

\* A 5xx and a timeout were retried, the 4xx on the third attempt ended the batch.
C15_Witness ==
    /\ BatchReturned
    /\ Len(httpLog) = 3
    /\ httpLog[1] = [kind |-> "status", code |-> 503]
    /\ httpLog[2] = [kind |-> "transport", err |-> ErrClientTimeout]
    /\ httpLog[3] = [kind |-> "status", code |-> 429]
    /\ rtRet.err = <<"OpenAI HTTP", 429>>

\* C16: a parse or application-level error on a 2xx response (undecodable
\* body, error object, no choices, or a completion text that is no JSON) is
\* terminal for the batch: the error is returned without a further attempt.
C16_ParseErrorsTerminal ==
    \A i \in 1..Len(httpLog) :
        (\/ httpLog[i].kind \in {"decode", "api_error", "no_choices"}
         \/ (httpLog[i].kind = "ok" /\ ~httpLog[i].text.json))
            => Terminal(i)

(***************************************************************************)
(* Part 4: OpenAIExecutor.TransformProject and batchFiles.  One call of    *)
(* TransformProject: the files are split into batches, the batches are     *)
(* invoked in order (each transformBatch call ends in a result or, after   *)
(* its retry loop, in an error), and the return is handed to the executor. *)
(* Paths, contents and summaries are token sequences; len() is Len().      *)
(***************************************************************************)

\* ------------------------------------------------------------------ batching

\* Files per call, bytes of content per file, and the byte budget.
MaxBatchFiles == 3
MaxContentLen == 2
MaxBudget == 6

fileSize(f) == Len(f.Path) + Len(f.Content)

neverOverBudget(cur, curSize, size, maxBytes) == FALSE

\* The flush test of batchFiles.
overBudget(cur, curSize, size, maxBytes) == Len(cur) > 0 /\ curSize + size > maxBytes

RECURSIVE batchLoop(_, _, _, _, _)
batchLoop(files, maxBytes, batches, cur, curSize) ==
    IF files = <<>>
    THEN IF Len(cur) > 0 THEN Append(batches, cur) ELSE batches
    ELSE LET f == Head(files)
             size == fileSize(f)
             flush == overBudget(cur, curSize, size, maxBytes)
         IN  batchLoop(Tail(files), maxBytes,
                       IF flush THEN Append(batches, cur) ELSE batches,
                       (IF flush THEN <<>> ELSE cur) \o <<f>>,
                       (IF flush THEN 0 ELSE curSize) + size)

batchFiles(files, maxBytes) == batchLoop(files, maxBytes, <<>>, <<>>, 0)

\* ------------------------------------------------------------------ TransformProject

\* The zero ProjectTransformResult, with the summary as a token sequence.
NoResult == [Changed |-> FALSE, Summary |-> <<>>, ChangedFiles |-> EmptyMap]

\* The early return for an empty file list.
NothingToDo == [res |-> NoResult, err |-> NoError]

mergeKeepingFirst(acc, changed) ==
    [p \in DOMAIN acc \cup DOMAIN changed |-> IF p \in DOMAIN acc THEN acc[p] ELSE changed[p]]

\* for p, c := range res.ChangedFiles { changedFiles[p] = c }
mergeChanged(acc, changed) ==
    [p \in DOMAIN acc \cup DOMAIN changed |-> IF p \in DOMAIN changed THEN changed[p] ELSE acc[p]]

\* strings.Join(list, "; ")
RECURSIVE Join(_)
Join(list) ==
    IF list = <<>> THEN <<>>
    ELSE IF Len(list) = 1 THEN Head(list)
    ELSE Head(list) \o <<";", " ">> \o Join(Tail(list))

partialReturn(changedFiles, summaries, err) ==
    [res |-> [Changed |-> DOMAIN changedFiles # {}, Summary |-> Join(summaries),
              ChangedFiles |-> changedFiles],
     err |-> err]

\* return cleanup.ProjectTransformResult{}, err
errorReturn(changedFiles, summaries, err) == [res |-> NoResult, err |-> err]

\* ------------------------------------------------------------------ TransformProject inputs

\* File i of a call is named by the digits of i.
FileContents == UNION {[1..n -> {"x"}] : n \in 0..MaxContentLen}

TransformFiles ==
    UNION {{[i \in 1..n |-> [Path |-> Digits(i), Content |-> c[i]]] : c \in [1..n -> FileContents]} :
             n \in 0..MaxBatchFiles}

\* What a transformBatch call can return without an error: the summary is
\* trimmed and Changed tells whether ChangedFiles is non-empty.
BatchResult(changed, summary) ==
    [Changed |-> DOMAIN changed # {}, Summary |-> summary, ChangedFiles |-> changed]

BatchResults ==
    {BatchResult(EmptyMap, <<>>),
     BatchResult([p \in {<<"1">>} |-> "c1"], <<"tidy">>),
     BatchResult([p \in {<<"1">>} |-> "c2"], <<"dry">>),
     BatchResult([p \in {<<"2">>} |-> "c1"], <<>>)}

\* The error a transformBatch call ends in once its retry loop gave up.
BatchErr == <<"OpenAI HTTP", 400>>

\* The variables TransformProject leaves alone.
notTransform == <<executorVars, plannerVars, retryVars, rulesVars, applyVars, walkVars, toggleVars, runnerVars>>

InitTransform ==
    /\ ExecutorIdle
    /\ PlannerIdle
    /\ RetryIdle
    /\ xfFiles \in TransformFiles
    /\ xfBudget \in 1..MaxBudget
    /\ xfPc = "call"
    /\ xfBatches = <<>>
    /\ xfNext = 0
    /\ xfChanged = EmptyMap
    /\ xfSummaries = <<>>
    /\ xfLog = <<>>
    /\ xfRet = <<>>
    /\ xfDelivered = <<>>
    /\ RulesIdle
    /\ ApplyIdle
    /\ WalkIdle
    /\ ToggleIdle
    /\ RunnerIdle

\* Entry of TransformProject: the early return, or the split into batches.
CallTransformProject ==
    /\ xfPc = "call"
    /\ IF Len(xfFiles) = 0
       THEN /\ xfPc' = "returned"
            /\ xfRet' = NothingToDo
            /\ UNCHANGED <<xfBatches, xfNext>>
       ELSE /\ xfPc' = "loop"
            /\ xfBatches' = batchFiles(xfFiles, xfBudget)
            /\ xfNext' = 1
            /\ xfRet' = xfRet
    /\ UNCHANGED <<xfFiles, xfBudget, xfChanged, xfSummaries, xfLog, xfDelivered>>
    /\ UNCHANGED notTransform

\* transformBatch returned a result for the next batch.
BatchSucceeds ==
    /\ xfPc = "loop"
    /\ xfNext <= Len(xfBatches)
    /\ \E res \in BatchResults :
          /\ xfChanged' = mergeChanged(xfChanged, res.ChangedFiles)
          /\ xfSummaries' = IF Trim(res.Summary, Whitespace) # <<>>
                            THEN Append(xfSummaries, res.Summary)
                            ELSE xfSummaries
          /\ xfLog' = Append(xfLog, [res |-> res, err |-> NoError])
    /\ xfNext' = xfNext + 1
    /\ UNCHANGED <<xfFiles, xfBudget, xfPc, xfBatches, xfRet, xfDelivered>>
    /\ UNCHANGED notTransform

\* transformBatch returned an error for the next batch.
BatchFails ==
    /\ xfPc = "loop"
    /\ xfNext <= Len(xfBatches)
    /\ xfLog' = Append(xfLog, [res |-> NoResult, err |-> BatchErr])
    /\ xfRet' = errorReturn(xfChanged, xfSummaries, BatchErr)
    /\ xfPc' = "returned"
    /\ UNCHANGED <<xfFiles, xfBudget, xfBatches, xfNext, xfChanged, xfSummaries, xfDelivered>>
    /\ UNCHANGED notTransform

\* Every batch succeeded.
ReturnResult ==
    /\ xfPc = "loop"
    /\ xfNext > Len(xfBatches)
    /\ xfRet' = [res |-> [Changed |-> DOMAIN xfChanged # {}, Summary |-> Join(xfSummaries),
                          ChangedFiles |-> xfChanged],
                 err |-> NoError]
    /\ xfPc' = "returned"
    /\ UNCHANGED <<xfFiles, xfBudget, xfBatches, xfNext, xfChanged, xfSummaries, xfLog,
                   xfDelivered>>
    /\ UNCHANGED notTransform

\* ExecuteTaskPlan takes the return: with an error it appends the error
\* TaskResult and returns, so its change loop ranges over nothing; without
\* one the change loop ranges over result.ChangedFiles.
ReturnToExecutor ==
    /\ xfPc = "returned"
    /\ xfDelivered' = IF xfRet.err # NoError /\ StopsOnOracleError
                      THEN EmptyMap
                      ELSE xfRet.res.ChangedFiles
    /\ xfPc' = "handed"
    /\ UNCHANGED <<xfFiles, xfBudget, xfBatches, xfNext, xfChanged, xfSummaries, xfLog, xfRet>>
    /\ UNCHANGED notTransform

NextTransform ==
    \/ CallTransformProject
    \/ BatchSucceeds
    \/ BatchFails
    \/ ReturnResult
    \/ ReturnToExecutor

SpecTransform == InitTransform /\ [][NextTransform]_vars

\* ------------------------------------------------------------------ TransformProject claims

TransformReturned == xfPc \in {"returned", "handed"}

\* Batches that returned a result before batch k was invoked.
Succeeded(k) == \A i \in 1..(k - 1) : xfLog[i].err = NoError

\* C17: when batch j of several ends in an error, TransformProject returns
\* the error with an empty result, no batch after j is invoked, and no
\* changed file of the batches before j reaches the executor's change loop
\* (the only place that updates the WorkingCopy, the Plan and the disk).
C17_BatchErrorDiscardsTask ==
    \A j \in 1..Len(xfLog) :
        xfLog[j].err # NoError =>
            /\ j = Len(xfLog)
            /\ Succeeded(j)
            /\ TransformReturned
            /\ xfRet = [res |-> NoResult, err |-> xfLog[j].err]
            /\ xfPc = "handed" => xfDelivered = EmptyMap

\* Three batches: the first returned a changed file, the second failed, the
\* third was never invoked, and the executor has taken the return.
C17_Witness ==
    /\ xfPc = "handed"
    /\ Len(xfBatches) = 3
    /\ Len(xfLog) = 2
    /\ xfLog[1].res.ChangedFiles # EmptyMap
    /\ xfLog[2].err # NoError
    /\ xfRet.err # NoError

RECURSIVE Concat(_)
Concat(lists) == IF lists = <<>> THEN <<>> ELSE Head(lists) \o Concat(Tail(lists))

RECURSIVE TotalSize(_)
TotalSize(files) ==
    IF files = <<>> THEN 0
    ELSE Len(Head(files).Path) + Len(Head(files).Content) + TotalSize(Tail(files))

\* C18: batchFiles(files, maxBytes) is an ordered partition of its input: the
\* batches concatenated give the input, no batch is empty, files that fit
\* the budget together make one batch, and a batch is within the budget
\* unless it is a single file that alone exceeds it.
C18_BatchesPartitionInput ==
    xfPc \in {"loop", "returned", "handed"} /\ Len(xfFiles) > 0 =>
        /\ Concat(xfBatches) = xfFiles
        /\ \A b \in 1..Len(xfBatches) : Len(xfBatches[b]) > 0
        /\ TotalSize(xfFiles) <= xfBudget => Len(xfBatches) = 1
        /\ \A b \in 1..Len(xfBatches) :
              \/ TotalSize(xfBatches[b]) <= xfBudget
              \/ Len(xfBatches[b]) = 1

\* Three files in two batches: two files share the first batch, the third
\* alone exceeds the budget.
C18_Witness ==
    /\ xfPc = "loop"
    /\ Len(xfFiles) = 3
    /\ Len(xfBatches) = 2
    /\ Len(xfBatches[1]) = 2
    /\ TotalSize(xfBatches[1]) <= xfBudget
    /\ TotalSize(xfBatches[2]) > xfBudget

\* The batches that returned path p, and the non-blank summaries, in batch order.
Returning(p) == {i \in 1..Len(xfLog) : p \in DOMAIN xfLog[i].res.ChangedFiles}

LastReturning(p) == CHOOSE i \in Returning(p) : \A k \in Returning(p) : k <= i

NonBlankSummaries ==
    LET kept == SelectSeq(xfLog, LAMBDA e : \E t \in Range(e.res.Summary) : t \notin Whitespace)
    IN  [i \in 1..Len(kept) |-> kept[i].res.Summary]

\* C19: when every batch succeeds, ChangedFiles is the union of the batches'
\* ChangedFiles with the later batch's content for a path returned twice,
\* Changed is true exactly when that union is non-empty, and Summary is the
\* non-blank batch summaries joined in batch order.
C19_ResultIsUnionOfBatches ==
    (TransformReturned /\ Len(xfFiles) > 0 /\ xfRet.err = NoError) =>
        LET union == UNION {DOMAIN xfLog[i].res.ChangedFiles : i \in 1..Len(xfLog)}
        IN  /\ Len(xfLog) = Len(xfBatches)
            /\ DOMAIN xfRet.res.ChangedFiles = union
            /\ \A p \in union :
                  xfRet.res.ChangedFiles[p] = xfLog[LastReturning(p)].res.ChangedFiles[p]
            /\ xfRet.res.Changed <=> (union # {})
            /\ xfRet.res.Summary = Join(NonBlankSummaries)

\* Three batches succeeded: the first two returned the same path with
\* different contents and different summaries, the third had no summary.
C19_Witness ==
    /\ xfPc = "returned"
    /\ xfRet.err = NoError
    /\ Len(xfLog) = 3
    /\ xfLog[1].res.ChangedFiles = [p \in {<<"1">>} |-> "c1"]
    /\ xfLog[2].res.ChangedFiles = [p \in {<<"1">>} |-> "c2"]
    /\ xfLog[3].res.Summary = <<>>
    /\ xfRet.res.ChangedFiles[<<"1">>] = "c2"
    /\ xfRet.res.Summary = <<"tidy", ";", " ", "dry">>

(***************************************************************************)
(* Part 5: the rule store, package rules (src/internal/rules/rules.go).    *)
(* Load reads the base file and the optional local file and merges them;   *)
(* ApplyCLIOverrides then applies the --enable / --disable lists.  IDs and *)
(* the text fields of a rule are token sequences.                          *)
(***************************************************************************)

\* ------------------------------------------------------------------ rule store

\* const SchemaVersion = 1
SchemaVersion == 1

\* strings.TrimSpace(s) == ""
blank(s) == Trim(s, Whitespace) = <<>>

validateIDOnly(r) == IF blank(r.ID) THEN <<"rule missing id">> ELSE <<>>

\* The warning of validateRule; <<>> stands for "".
validateRule(r) ==
    IF blank(r.ID) THEN <<"rule missing id">>
    ELSE IF blank(r.Title) THEN <<"rule", r.ID, "missing title">>
    ELSE IF blank(r.Description) THEN <<"rule", r.ID, "missing description">>
    ELSE IF blank(r.Details) THEN <<"rule", r.ID, "missing details">>
    ELSE IF r.RiskLevel # <<>> /\ r.RiskLevel # <<"safe">> /\ r.RiskLevel # <<"aggressive">>
    THEN <<"rule", r.ID, "has invalid risk_level">>
    ELSE <<>>

mergeRule(base, override) ==
    [ID |-> base.ID,
     Enabled |-> override.Enabled,
     Title |-> IF ~blank(override.Title) THEN override.Title ELSE base.Title,
     Description |-> IF ~blank(override.Description) THEN override.Description
                     ELSE base.Description,
     Details |-> IF ~blank(override.Details) THEN override.Details ELSE base.Details,
     RiskLevel |-> IF ~blank(override.RiskLevel) THEN override.RiskLevel ELSE base.RiskLevel]

appendAlways(list, value) == Append(list, value)

appendIfMissing(list, value) == IF value \in Range(list) THEN list ELSE Append(list, value)

\* merged[id] = rule
put(merged, id, rule) ==
    [q \in DOMAIN merged \cup {id} |-> IF q = id THEN rule ELSE merged[q]]

neverSeen(merged, id) == FALSE

\* _, seen := merged[r.ID]
seen(merged, id) == id \in DOMAIN merged

\* The loop of Load over base.Rules; st = [merged, order, warnings].
RECURSIVE mergeBase(_, _)
mergeBase(rs, st) ==
    IF rs = <<>> THEN st
    ELSE LET r == Head(rs)
         IN  IF validateRule(r) # <<>>
             THEN mergeBase(Tail(rs), [st EXCEPT !.warnings = Append(@, validateRule(r))])
             ELSE IF seen(st.merged, r.ID)
             THEN mergeBase(Tail(rs),
                            [st EXCEPT !.warnings = Append(@, <<"duplicate base rule id", r.ID>>)])
             ELSE mergeBase(Tail(rs),
                            [st EXCEPT !.merged = put(@, r.ID, [Rule |-> r, SourceChain |-> <<"base">>]),
                                       !.order = Append(@, r.ID)])

\* The loop of Load over local.Rules.
RECURSIVE mergeLocal(_, _)
mergeLocal(rs, st) ==
    IF rs = <<>> THEN st
    ELSE LET r == Head(rs)
         IN  IF validateRule(r) # <<>>
             THEN mergeLocal(Tail(rs), [st EXCEPT !.warnings = Append(@, validateRule(r))])
             ELSE IF seen(st.merged, r.ID)
             THEN LET existing == st.merged[r.ID]
                  IN  mergeLocal(Tail(rs),
                                 [st EXCEPT !.merged =
                                     put(@, r.ID,
                                         [Rule |-> mergeRule(existing.Rule, r),
                                          SourceChain |-> appendIfMissing(existing.SourceChain,
                                                                          "local")])])
             ELSE mergeLocal(Tail(rs),
                             [st EXCEPT !.merged = put(@, r.ID, [Rule |-> r, SourceChain |-> <<"local">>]),
                                        !.order = Append(@, r.ID)])

\* File{}: what the loaders return next to an error.
ZeroFile == [SchemaVersion |-> 0, Rules |-> <<>>]

\* loadFile(path): [file, err].
loadFile(f) ==
    IF ~f.exists THEN [file |-> ZeroFile, err |-> <<"read rules file">>]
    ELSE IF ~f.parses THEN [file |-> ZeroFile, err |-> <<"parse rules file">>]
    ELSE IF f.SchemaVersion # SchemaVersion
    THEN [file |-> ZeroFile, err |-> <<"unsupported rules schema_version">>]
    ELSE [file |-> [SchemaVersion |-> f.SchemaVersion, Rules |-> f.Rules], err |-> NoError]

loadOptionalLenient(f) ==
    IF f.exists /\ f.parses /\ f.SchemaVersion = SchemaVersion
    THEN [file |-> [SchemaVersion |-> f.SchemaVersion, Rules |-> f.Rules],
          exists |-> TRUE, err |-> NoError]
    ELSE [file |-> ZeroFile, exists |-> FALSE, err |-> NoError]

\* loadOptionalFile(path): [file, exists, err]; a missing file is no error.
loadOptionalFile(f) ==
    IF ~f.exists THEN [file |-> ZeroFile, exists |-> FALSE, err |-> NoError]
    ELSE IF ~f.parses
    THEN [file |-> ZeroFile, exists |-> FALSE, err |-> <<"parse local rules file">>]
    ELSE IF f.SchemaVersion # SchemaVersion
    THEN [file |-> ZeroFile, exists |-> FALSE,
          err |-> <<"unsupported local rules schema_version">>]
    ELSE [file |-> [SchemaVersion |-> f.SchemaVersion, Rules |-> f.Rules],
          exists |-> TRUE, err |-> NoError]

LoadError(e) == [rules |-> <<>>, warnings |-> <<>>, err |-> e]

\* Load(basePath, localPath) on the two files.
Load(basePath, localPath) ==
    LET base == loadFile(basePath)
        local == loadOptionalFile(localPath)
    IN  IF base.err # NoError THEN LoadError(base.err)
        ELSE IF local.err # NoError THEN LoadError(local.err)
        ELSE LET afterBase == mergeBase(base.file.Rules,
                                        [merged |-> EmptyMap, order |-> <<>>, warnings |-> <<>>])
                 st == IF local.exists THEN mergeLocal(local.file.Rules, afterBase)
                       ELSE afterBase
             IN  [rules |-> [i \in 1..Len(st.order) |-> st.merged[st.order[i]]],
                  warnings |-> st.warnings,
                  err |-> NoError]

rawSet(items) == Range(items) \ {<<>>}

normalizeSet(items) ==
    {ToLower(Trim(items[i], Whitespace)) : i \in 1..Len(items)} \ {<<>>}

ApplyCLIOverrides(rs, enableIDs, disableIDs) ==
    [i \in 1..Len(rs) |->
        LET id == ToLower(Trim(rs[i].Rule.ID, Whitespace))
            enabled == IF id \in normalizeSet(enableIDs)
                       THEN [rs[i] EXCEPT !.Rule.Enabled = TRUE,
                                          !.SourceChain = appendIfMissing(@, "cli")]
                       ELSE rs[i]
        IN  IF id \in normalizeSet(disableIDs)
            THEN [enabled EXCEPT !.Rule.Enabled = FALSE,
                                 !.SourceChain = appendIfMissing(@, "cli")]
            ELSE enabled]

\* ------------------------------------------------------------------ rule store inputs

\* Rules per file.
MaxFileRules == 2

\* An entry of a rules file, written by `src` ("base" or "local"); `shape`
\* names the field that is blank or invalid, "on" and "off" are valid entries.
Entry(src, id, shape) ==
    [ID |-> id,
     Enabled |-> shape = "on",
     Title |-> IF shape = "untitled" THEN <<" ">> ELSE <<src, " ", "title">>,
     Description |-> IF shape = "undescribed" THEN <<>> ELSE <<src, " ", "description">>,
     Details |-> IF shape = "nodetails" THEN <<" ">> ELSE <<src, " ", "details">>,
     RiskLevel |-> IF shape = "risky" THEN <<"risky">>
                   ELSE IF shape # "on" THEN <<>>
                   ELSE IF src = "local" THEN <<"aggressive">> ELSE <<"safe">>]

BaseEntries ==
    {Entry("base", <<"a">>, "on"), Entry("base", <<"a">>, "off"),
     Entry("base", <<"b">>, "on"), Entry("base", <<"b">>, "untitled"),
     Entry("base", <<"b">>, "risky"), Entry("base", <<" ">>, "on")}

LocalEntries ==
    {Entry("local", <<"a">>, "on"), Entry("local", <<"a">>, "off"),
     Entry("local", <<"a">>, "undescribed"),
     Entry("local", <<"c">>, "on"), Entry("local", <<"c">>, "off"),
     Entry("local", <<"c">>, "nodetails")}

RulesFile(rs) == [exists |-> TRUE, parses |-> TRUE, SchemaVersion |-> SchemaVersion, Rules |-> rs]

\* A file that is missing, one that is no JSON, one of another schema version.
BrokenFiles ==
    {[RulesFile(<<>>) EXCEPT !.exists = FALSE],
     [RulesFile(<<>>) EXCEPT !.parses = FALSE],
     [RulesFile(<<>>) EXCEPT !.SchemaVersion = SchemaVersion + 1]}

FilesOf(entries) ==
    {RulesFile(rs) : rs \in UNION {[1..n -> entries] : n \in 0..MaxFileRules}} \cup BrokenFiles

\* The --enable / --disable lists.
CLILists == {<<>>, <<<<" ", "A">>>>, <<<<"c">>, <<"zz">>>>}

\* The variables the rule store leaves alone.
notRules == <<executorVars, plannerVars, retryVars, transformVars, applyVars, walkVars, toggleVars, runnerVars>>

InitRules ==
    /\ ExecutorIdle
    /\ PlannerIdle
    /\ RetryIdle
    /\ TransformIdle
    /\ ApplyIdle
    /\ WalkIdle
    /\ ToggleIdle
    /\ RunnerIdle
    /\ baseFile \in FilesOf(BaseEntries)
    /\ localFile \in FilesOf(LocalEntries)
    /\ rulesPc = "load"
    /\ loaded = <<>>
    /\ warnings = <<>>
    /\ loadErr = <<>>
    /\ cli = <<>>
    /\ ensureLog = <<>>

\* loaded, warnings, err := rules.Load(basePath, localPath)
CallLoad ==
    /\ rulesPc = "load"
    /\ LET out == Load(baseFile, localFile)
       IN  /\ loaded' = out.rules
           /\ warnings' = out.warnings
           /\ loadErr' = out.err
    /\ rulesPc' = "loaded"
    /\ UNCHANGED <<baseFile, localFile, cli, ensureLog>>
    /\ UNCHANGED notRules

\* loaded = rules.ApplyCLIOverrides(loaded, enableIDs, disableIDs)
CallApplyCLIOverrides ==
    /\ rulesPc = "loaded"
    /\ loadErr = NoError
    /\ \E en \in CLILists, dis \in CLILists :
          /\ loaded' = ApplyCLIOverrides(loaded, en, dis)
          /\ cli' = [enable |-> en, disable |-> dis, calls |-> 1]
    /\ rulesPc' = "applied"
    /\ UNCHANGED <<baseFile, localFile, warnings, loadErr, ensureLog>>
    /\ UNCHANGED notRules

NextRules ==
    \/ CallLoad
    \/ CallApplyCLIOverrides

SpecRules == InitRules /\ [][NextRules]_vars

\* ------------------------------------------------------------------ rule store claims

HasText(s) == \E t \in Range(s) : t \notin Whitespace

\* Every rule of the file passes validation.
AllValid(file) ==
    \A i \in 1..Len(file.Rules) :
        LET r == file.Rules[i]
        IN  /\ HasText(r.ID) /\ HasText(r.Title) /\ HasText(r.Description) /\ HasText(r.Details)
            /\ r.RiskLevel \in {<<>>, <<"safe">>, <<"aggressive">>}

IDsOf(rs) == [i \in 1..Len(rs) |-> rs[i].ID]

LoadedIDs == [i \in 1..Len(loaded) |-> loaded[i].Rule.ID]

\* C20: when every rule of the base and the local file is valid, the list
\* returned by Load and then by ApplyCLIOverrides contains every base rule
\* ID and every local-only rule ID, and no ID twice.
C20_EveryIDOnce ==
    (rulesPc \in {"loaded", "applied"} /\ loadErr = NoError
        /\ AllValid(baseFile) /\ AllValid(localFile)) =>
        /\ Range(IDsOf(baseFile.Rules)) \subseteq Range(LoadedIDs)
        /\ Range(IDsOf(localFile.Rules)) \subseteq Range(LoadedIDs)
        /\ \A i, j \in 1..Len(loaded) : i # j => LoadedIDs[i] # LoadedIDs[j]

\* Two base rules, a local-only ID that the local file holds twice, and CLI
\* overrides applied.
C20_Witness ==
    /\ rulesPc = "applied"
    /\ IDsOf(baseFile.Rules) = <<<<"a">>, <<"b">>>>
    /\ IDsOf(localFile.Rules) = <<<<"c">>, <<"c">>>>
    /\ AllValid(baseFile) /\ AllValid(localFile)
    /\ cli.enable # <<>>
    /\ LoadedIDs = <<<<"a">>, <<"b">>, <<"c">>>>

\* The rule passes validation.
ValidEntry(r) ==
    /\ HasText(r.ID) /\ HasText(r.Title) /\ HasText(r.Description) /\ HasText(r.Details)
    /\ r.RiskLevel \in {<<>>, <<"safe">>, <<"aggressive">>}

\* Entry i of the base file is the one Load keeps for its ID: it is valid and
\* no valid entry before it has the same ID.
KeptBase(i) ==
    /\ ValidEntry(baseFile.Rules[i])
    /\ \A h \in 1..(i - 1) :
          ~(ValidEntry(baseFile.Rules[h]) /\ baseFile.Rules[h].ID = baseFile.Rules[i].ID)

\* Entry j of the local file is the only one with its ID.
OnlyLocal(j) ==
    \A h \in 1..Len(localFile.Rules) :
        h # j => localFile.Rules[h].ID # localFile.Rules[j].ID

\* Load returned without error and ApplyCLIOverrides has not run yet.
LoadReturnedRules == rulesPc = "loaded" /\ loadErr = NoError

\* C21: for every enabled base rule and every local entry with the same ID
\* and Enabled=false, the rule returned by Load has Enabled=false, whatever
\* the other fields of the local entry are (a blank Title, Description or
\* Details included).
C21_LocalDisableWins ==
    LoadReturnedRules =>
        \A i \in 1..Len(baseFile.Rules), j \in 1..Len(localFile.Rules) :
            (/\ KeptBase(i)
             /\ baseFile.Rules[i].Enabled
             /\ OnlyLocal(j)
             /\ localFile.Rules[j].ID = baseFile.Rules[i].ID
             /\ ~localFile.Rules[j].Enabled) =>
                \E k \in 1..Len(loaded) :
                    /\ loaded[k].Rule.ID = baseFile.Rules[i].ID
                    /\ ~loaded[k].Rule.Enabled

\* The merge of a base rule and a local entry, field by field: a non-blank
\* local value wins, a blank one keeps the base value; Enabled is the local one.
FieldwiseMerge(b, l) ==
    [ID |-> b.ID,
     Enabled |-> l.Enabled,
     Title |-> IF HasText(l.Title) THEN l.Title ELSE b.Title,
     Description |-> IF HasText(l.Description) THEN l.Description ELSE b.Description,
     Details |-> IF HasText(l.Details) THEN l.Details ELSE b.Details,
     RiskLevel |-> IF HasText(l.RiskLevel) THEN l.RiskLevel ELSE b.RiskLevel]

\* C22: when a local entry overrides a base rule, the rule returned by Load
\* is the field-by-field merge: Title, Description, Details and RiskLevel
\* take the local value when it is non-blank and keep the base value when it
\* is blank, and Enabled is the local flag; a blank local Description leaves
\* the base Description while the other local fields are still applied.
C22_FieldwiseMerge ==
    LoadReturnedRules =>
        \A i \in 1..Len(baseFile.Rules), j \in 1..Len(localFile.Rules) :
            (/\ KeptBase(i)
             /\ OnlyLocal(j)
             /\ localFile.Rules[j].ID = baseFile.Rules[i].ID) =>
                \E k \in 1..Len(loaded) :
                    loaded[k].Rule = FieldwiseMerge(baseFile.Rules[i], localFile.Rules[j])

\* Load has returned (with or without an error), ApplyCLIOverrides has not run.
LoadReturned == rulesPc = "loaded"

Usable(f) == f.exists /\ f.parses /\ f.SchemaVersion = SchemaVersion

\* Load returned an error and nothing else.
FailedClosed == loadErr # NoError /\ loaded = <<>> /\ warnings = <<>>

\* The indices of the base entries Load keeps.
KeptBaseIndices == {i \in 1..Len(baseFile.Rules) : KeptBase(i)}

\* The result is the kept base rules, in file order, each from source "base".
BaseRulesAlone ==
    /\ Len(loaded) = Cardinality(KeptBaseIndices)
    /\ \A k \in 1..Len(loaded) :
          \E i \in KeptBaseIndices :
              /\ Cardinality({h \in KeptBaseIndices : h <= i}) = k
              /\ loaded[k] = [Rule |-> baseFile.Rules[i], SourceChain |-> <<"base">>]

\* C23: Load fails closed. A base file that is missing, unparseable or of a
\* SchemaVersion other than 1 gives an error and no rules; a missing local
\* file is no error and gives the base rules alone; a local file that exists
\* but is unparseable or of another SchemaVersion gives an error and no rules.
C23_LoadFailsClosed ==
    LoadReturned =>
        /\ ~Usable(baseFile) => FailedClosed
        /\ (Usable(baseFile) /\ ~localFile.exists) => (loadErr = NoError /\ BaseRulesAlone)
        /\ (Usable(baseFile) /\ localFile.exists /\ ~Usable(localFile)) => FailedClosed

\* A base file with two rules next to a local file of another schema version:
\* Load returned the error and no rules.
C23_Witness ==
    /\ LoadReturned
    /\ Usable(baseFile)
    /\ Cardinality(KeptBaseIndices) = 2
    /\ localFile.exists /\ localFile.parses /\ localFile.SchemaVersion # SchemaVersion
    /\ FailedClosed

\* The entries that fail validation, over both files.
InvalidCount ==
    Cardinality({i \in 1..Len(baseFile.Rules) : ~ValidEntry(baseFile.Rules[i])})
        + Cardinality({j \in 1..Len(localFile.Rules) : ~ValidEntry(localFile.Rules[j])})

\* The valid base entries whose ID a valid base entry before them has.
DuplicateBaseIndices ==
    {i \in 1..Len(baseFile.Rules) : ValidEntry(baseFile.Rules[i]) /\ ~KeptBase(i)}

DuplicateWarnings ==
    {w \in 1..Len(warnings) : warnings[w][1] = "duplicate base rule id"}

\* The local file has a valid entry for the ID.
LocalOverrides(id) ==
    \E j \in 1..Len(localFile.Rules) :
        ValidEntry(localFile.Rules[j]) /\ localFile.Rules[j].ID = id

\* C24: in Load a rule with a blank ID, Title, Description or Details or a
\* RiskLevel outside {"", safe, aggressive} is left out of the result with
\* exactly one warning, a base rule whose ID appeared earlier in the base
\* file is left out with one warning while the first occurrence is kept,
\* and Load returns no error in either case.
C24_InvalidRulesWarnAndDrop ==
    (LoadReturned /\ Usable(baseFile) /\ (localFile.exists => Usable(localFile))) =>
        /\ loadErr = NoError
        /\ Len(warnings) = InvalidCount + Cardinality(DuplicateBaseIndices)
        /\ Cardinality(DuplicateWarnings) = Cardinality(DuplicateBaseIndices)
        /\ \A k \in 1..Len(loaded) : ValidEntry(loaded[k].Rule)
        /\ \A i \in KeptBaseIndices :
              ~LocalOverrides(baseFile.Rules[i].ID) =>
                  \E k \in 1..Len(loaded) :
                      loaded[k] = [Rule |-> baseFile.Rules[i], SourceChain |-> <<"base">>]
        /\ \A k \in 1..Len(loaded) :
              \/ \E i \in KeptBaseIndices : baseFile.Rules[i].ID = loaded[k].Rule.ID
              \/ LocalOverrides(loaded[k].Rule.ID)

\* A base file that holds a rule twice, a local file with one invalid entry:
\* Load returned the first occurrence and two warnings.
C24_Witness ==
    /\ LoadReturned
    /\ loadErr = NoError
    /\ Cardinality(DuplicateBaseIndices) = 1
    /\ InvalidCount = 1
    /\ Len(warnings) = 2
    /\ Len(loaded) = 1
    /\ loaded[1].Rule = baseFile.Rules[1]

\* ------------------------------------------------------------------ Part 6: EnsureBaseFile

\* DefaultRules(): the built-in rule file.
DefaultRules ==
    [SchemaVersion |-> SchemaVersion,
     Rules |->
        <<
         [ID |-> <<"remove", "_", "redundant", "_", "guards">>,
          Enabled |-> TRUE,
          Title |-> <<"Remove", " ", "redundant", " ", "guards">>,
          Description |-> <<"Remove", " ", "redundant", " ", "guard", " ", "conditions", " ",
                            "that", " ", "do", " ", "not", " ", "affect", " ", "behavior", ".">>,
          Details |-> <<"Find", " ", "branches", " ", "such", " ", "as", " ", "always", "-",
                        "true", " ", "guards", " ", "or", " ", "duplicate", " ", "checks", " ",
                        "that", " ", "can", " ", "be", " ", "simplified", " ", "safely", ".">>,
          RiskLevel |-> <<"safe">>],
         [ID |-> <<"refactor", "_", "dry">>,
          Enabled |-> TRUE,
          Title |-> <<"Refactor", " ", "code", " ", "to", " ", "follow", " ", "DRY", " ",
                      "principles">>,
          Description |-> <<"Reduce", " ", "duplicated", " ", "logic", " ", "by", " ",
                            "consolidating", " ", "repeated", " ", "patterns", ".">>,
          Details |-> <<"Look", " ", "for", " ", "repeated", " ", "code", " ", "blocks", " ",
                        "that", " ", "can", " ", "be", " ", "extracted", " ", "into", " ",
                        "shared", " ", "helpers", " ", "without", " ", "changing", " ",
                        "functionality", ".">>,
          RiskLevel |-> <<"safe">>],
         [ID |-> <<"harden", "_", "error", "_", "handling">>,
          Enabled |-> TRUE,
          Title |-> <<"Harden", " ", "code", " ", "with", " ", "better", " ", "error", " ",
                      "handling">>,
          Description |-> <<"Improve", " ", "reliability", " ", "through", " ", "explicit",
                            " ", "error", " ", "handling", " ", "and", " ", "propagation", ".">>,
          Details |-> <<"Identify", " ", "ignored", " ", "errors", ",", " ", "weak", " ",
                        "error", " ", "context", ",", " ", "and", " ", "missing", " ",
                        "failure", " ", "paths", ";", " ", "strengthen", " ", "handling", " ",
                        "while", " ", "preserving", " ", "behavior", ".">>,
          RiskLevel |-> <<"safe">>],
         [ID |-> <<"gate", "_", "features", "_", "env">>,
          Enabled |-> FALSE,
          Title |-> <<"Gate", " ", "features", " ", "behind", " ", "environment", " ",
                      "variables">>,
          Description |-> <<"Allow", " ", "behavior", " ", "to", " ", "be", " ", "controlled",
                            " ", "by", " ", "environment", " ", "flags", ".">>,
          Details |-> <<"Where", " ", "appropriate", ",", " ", "introduce", " ", "env", "-",
                        "guarded", " ", "behavior", " ", "for", " ", "risky", " ", "or", " ",
                        "optional", " ", "features", ".">>,
          RiskLevel |-> <<"aggressive">>],
         [ID |-> <<"split", "_", "functions">>,
          Enabled |-> FALSE,
          Title |-> <<"Split", " ", "up", " ", "functions", " ", "into", " ", "reusable", " ",
                      "pieces">>,
          Description |-> <<"Break", " ", "large", " ", "functions", " ", "into", " ",
                            "smaller", ",", " ", "reusable", " ", "units", ".">>,
          Details |-> <<"Identify", " ", "long", " ", "or", " ", "multi", "-",
                        "responsibility", " ", "functions", " ", "and", " ", "extract", " ",
                        "cohesive", " ", "sub", "-", "functions", ".">>,
          RiskLevel |-> <<"aggressive">>],
         [ID |-> <<"standardize", "_", "naming">>,
          Enabled |-> TRUE,
          Title |-> <<"Standardize", " ", "inconsistent", " ", "naming", " ", "styles">>,
          Description |-> <<"Normalize", " ", "inconsistent", " ", "variable", ",", " ",
                            "function", ",", " ", "and", " ", "type", " ", "naming", ".">>,
          Details |-> <<"Apply", " ", "a", " ", "consistent", " ", "naming", " ", "style", " ",
                        "within", " ", "files", "/", "modules", " ", "while", " ",
                        "preserving", " ", "public", " ", "API", " ", "expectations", ".">>,
          RiskLevel |-> <<"safe">>],
         [ID |-> <<"simplify", "_", "complex", "_", "logic">>,
          Enabled |-> TRUE,
          Title |-> <<"Simplify", " ", "complex", " ", "logic", " ", "while", " ", "retaining",
                      " ", "functionality">>,
          Description |-> <<"Reduce", " ", "complexity", " ", "in", " ", "branching", " ",
                            "and", " ", "control", " ", "flow", ".">>,
          Details |-> <<"Refactor", " ", "overly", " ", "complex", " ", "logic", " ", "into",
                        " ", "clearer", " ", "structures", " ", "and", " ", "helper", " ",
                        "functions", " ", "when", " ", "needed", ".">>,
          RiskLevel |-> <<"safe">>],
         [ID |-> <<"detect", "_", "expensive", "_", "functions">>,
          Enabled |-> TRUE,
          Title |-> <<"Detect", " ", "expensive", " ", "functions", " ", "and", " ", "offer",
                      " ", "ideas", " ", "to", " ", "improve", " ", "performance">>,
          Description |-> <<"Identify", " ", "expensive", " ", "code", " ", "paths", " ",
                            "and", " ", "suggest", " ", "improvements", ".">>,
          Details |-> <<"Look", " ", "for", " ", "nested", " ", "loops", ",", " ", "repeated",
                        " ", "heavy", " ", "operations", ",", " ", "and", " ", "hot", " ",
                        "paths", ";", " ", "provide", " ", "optimization", " ", "suggestions",
                        ".">>,
          RiskLevel |-> <<"safe">>]
        >>]

\* ------------------------------------------------------------------ encoding/json

EscapeToken(t) == IF t = "\"" THEN "\\\"" ELSE IF t = "\\" THEN "\\\\" ELSE t

UnescapeToken(t) == IF t = "\\\"" THEN "\"" ELSE IF t = "\\\\" THEN "\\" ELSE t

\* A Go string as a JSON string literal, and back.
Quote(s) == <<"\"">> \o [i \in 1..Len(s) |-> EscapeToken(s[i])] \o <<"\"">>

Unquote(j) == [i \in 1..(Len(j) - 2) |-> UnescapeToken(j[i + 1])]

\* The JSON object of a Rule: risk_level is `omitempty`.
MarshalRule(r) ==
    LET o == [id |-> Quote(r.ID),
              enabled |-> r.Enabled,
              title |-> Quote(r.Title),
              description |-> Quote(r.Description),
              details |-> Quote(r.Details)]
    IN  IF r.RiskLevel = <<>> THEN o ELSE o @@ [risk_level |-> Quote(r.RiskLevel)]

\* json.MarshalIndent(file, "", "  ")
MarshalIndent(f) ==
    [schema_version |-> f.SchemaVersion,
     rules |-> [i \in 1..Len(f.Rules) |-> MarshalRule(f.Rules[i])]]

\* A Rule from its JSON object: an absent key leaves the zero value.
UnmarshalRule(o) ==
    [ID |-> Unquote(o.id),
     Enabled |-> o.enabled,
     Title |-> Unquote(o.title),
     Description |-> Unquote(o.description),
     Details |-> Unquote(o.details),
     RiskLevel |-> IF "risk_level" \in DOMAIN o THEN Unquote(o.risk_level) ELSE <<>>]

\* json.Unmarshal(data, &f)
Unmarshal(data) ==
    [SchemaVersion |-> data.schema_version,
     Rules |-> [i \in 1..Len(data.rules) |-> UnmarshalRule(data.rules[i])]]

\* The file that os.WriteFile leaves at the path; a file is kept as what
\* json.Unmarshal makes of its bytes.
WriteFile(data) ==
    [exists |-> TRUE,
     parses |-> TRUE,
     SchemaVersion |-> Unmarshal(data).SchemaVersion,
     Rules |-> Unmarshal(data).Rules]

ensureAlwaysWrites(f, dirOK) ==
    IF ~dirOK THEN [file |-> f, err |-> <<"create rules dir">>]
    ELSE [file |-> WriteFile(MarshalIndent(DefaultRules)), err |-> NoError]

\* EnsureBaseFile(path) on the file at the path: [file, err]. dirOK: MkdirAll
\* succeeds.
EnsureBaseFile(f, dirOK) ==
    IF f.exists THEN [file |-> f, err |-> NoError]
    ELSE IF ~dirOK THEN [file |-> f, err |-> <<"create rules dir">>]
    ELSE [file |-> WriteFile(MarshalIndent(DefaultRules)), err |-> NoError]

\* ------------------------------------------------------------------ EnsureBaseFile, then Load

\* Calls of EnsureBaseFile on the same path.
MaxEnsureCalls == 3

\* A local file with at most one rule, or a broken one.
SmallLocalFiles ==
    {RulesFile(<<>>)} \cup {RulesFile(<<e>>) : e \in LocalEntries} \cup BrokenFiles

InitEnsure ==
    /\ ExecutorIdle
    /\ PlannerIdle
    /\ RetryIdle
    /\ TransformIdle
    /\ ApplyIdle
    /\ WalkIdle
    /\ ToggleIdle
    /\ RunnerIdle
    /\ baseFile \in FilesOf(BaseEntries)
    /\ localFile \in SmallLocalFiles
    /\ rulesPc = "ensure"
    /\ loaded = <<>>
    /\ warnings = <<>>
    /\ loadErr = <<>>
    /\ cli = <<>>
    /\ ensureLog = <<>>

\* err := rules.EnsureBaseFile(rulesPath), once per run of a mode; an error
\* ends the run, otherwise Load follows or a later run calls it again.
CallEnsureBaseFile ==
    /\ rulesPc = "ensure"
    /\ \E dirOK \in BOOLEAN, again \in BOOLEAN :
          LET out == EnsureBaseFile(baseFile, dirOK)
          IN  /\ baseFile' = out.file
              /\ ensureLog' = Append(ensureLog,
                                     [before |-> baseFile, after |-> out.file, err |-> out.err])
              /\ rulesPc' = IF out.err # NoError THEN "failed"
                            ELSE IF again /\ Len(ensureLog) + 1 < MaxEnsureCalls THEN "ensure"
                            ELSE "load"
    /\ UNCHANGED <<localFile, loaded, warnings, loadErr, cli>>
    /\ UNCHANGED notRules

NextEnsure ==
    \/ CallEnsureBaseFile
    \/ CallLoad
    \/ CallApplyCLIOverrides

SpecEnsure == InitEnsure /\ [][NextEnsure]_vars

\* ------------------------------------------------------------------ EnsureBaseFile claims

\* The rules DefaultRules() lists, as Load returns them from the base file.
BuiltInRules ==
    [k \in 1..Len(DefaultRules.Rules) |->
        [Rule |-> DefaultRules.Rules[k], SourceChain |-> <<"base">>]]

\* C25: EnsureBaseFile on a missing path creates a file that Load parses
\* without error and without warnings into the 8 built-in rules; on a path
\* that exists it returns nil and leaves the file as it is, so any number of
\* calls leaves what the first call left.
C25_EnsureBaseFile ==
    /\ \A n \in 1..Len(ensureLog) :
          /\ ensureLog[n].before.exists =>
                (ensureLog[n].after = ensureLog[n].before /\ ensureLog[n].err = NoError)
          /\ (~ensureLog[n].before.exists /\ ensureLog[n].err = NoError) =>
                ensureLog[n].after.exists
          /\ ensureLog[1].err = NoError => ensureLog[n].after = ensureLog[1].after
    /\ (/\ LoadReturned
        /\ ensureLog # <<>>
        /\ ~ensureLog[1].before.exists
        /\ ~localFile.exists \/ (Usable(localFile) /\ localFile.Rules = <<>>)) =>
            /\ loadErr = NoError
            /\ warnings = <<>>
            /\ Len(loaded) = 8
            /\ loaded = BuiltInRules

\* EnsureBaseFile ran twice on a path that was missing at first, then Load
\* returned the eight built-in rules.
C25_Witness ==
    /\ LoadReturned
    /\ Len(ensureLog) = 2
    /\ ~ensureLog[1].before.exists
    /\ ensureLog[2].before.exists
    /\ ~localFile.exists
    /\ Len(loaded) = 8

\* ------------------------------------------------------------------ Part 7: repeated CLI overrides

\* Calls of ApplyCLIOverrides on one rule list.
MaxCLICalls == 3

\* Base and local entries; one base ID has an upper-case letter and a
\* trailing blank.
OverrideBaseEntries == {Entry("base", <<"a">>, "on"), Entry("base", <<"B", " ">>, "off")}

OverrideLocalEntries == {Entry("local", <<"a">>, "off"), Entry("local", <<"c">>, "on")}

\* The --enable / --disable lists.
OverrideLists ==
    {<<>>, <<<<" ", "A">>>>, <<<<"b">>, <<"c">>>>, <<<<"a">>, <<"zz">>, <<" ">>>>}

InitOverrides ==
    /\ ExecutorIdle
    /\ PlannerIdle
    /\ RetryIdle
    /\ TransformIdle
    /\ ApplyIdle
    /\ WalkIdle
    /\ ToggleIdle
    /\ RunnerIdle
    /\ baseFile \in FilesOf(OverrideBaseEntries)
    /\ localFile \in FilesOf(OverrideLocalEntries)
    /\ rulesPc = "load"
    /\ loaded = <<>>
    /\ warnings = <<>>
    /\ loadErr = <<>>
    /\ cli = <<>>
    /\ ensureLog = <<>>

\* loaded = rules.ApplyCLIOverrides(loaded, enableIDs, disableIDs), on the
\* list Load returned or on the list an earlier call returned.
ApplyOverrides ==
    /\ rulesPc \in {"loaded", "applied"}
    /\ loadErr = NoError
    /\ rulesPc = "applied" => cli.calls < MaxCLICalls
    /\ \E en \in OverrideLists, dis \in OverrideLists :
          /\ loaded' = ApplyCLIOverrides(loaded, en, dis)
          /\ cli' = [enable |-> en, disable |-> dis,
                     calls |-> IF rulesPc = "applied" THEN cli.calls + 1 ELSE 1]
    /\ rulesPc' = "applied"
    /\ UNCHANGED <<baseFile, localFile, warnings, loadErr, ensureLog>>
    /\ UNCHANGED notRules

NextOverrides ==
    \/ CallLoad
    \/ ApplyOverrides

SpecOverrides == InitOverrides /\ [][NextOverrides]_vars

\* ------------------------------------------------------------------ CLI override claims

\* An ID with its blanks trimmed and its letters lower-cased.
Folded(id) == ToLower(Trim(id, Whitespace))

\* The list names the rule ID, case-insensitively after trimming.
Names(list, id) == \E i \in 1..Len(list) : Folded(list[i]) = Folded(id)

\* An ApplyCLIOverrides call is the step.
OverrideStep == rulesPc \in {"loaded", "applied"} /\ rulesPc' = "applied"

\* C26: ApplyCLIOverrides matches rule IDs case-insensitively after
\* trimming; a rule named only in enableIDs ends Enabled=true, a rule named
\* only in disableIDs ends Enabled=false, a rule named in both ends
\* Enabled=false, and a rule named in neither keeps its Enabled flag and
\* its SourceChain.
C26_CLIOverrides ==
    [][OverrideStep =>
        /\ Len(loaded') = Len(loaded)
        /\ \A k \in 1..Len(loaded) :
              LET id == loaded[k].Rule.ID
                  enable == Names(cli'.enable, id)
                  disable == Names(cli'.disable, id)
              IN  /\ loaded'[k].Rule.ID = id
                  /\ (enable /\ ~disable) => loaded'[k].Rule.Enabled
                  /\ (disable /\ ~enable) => ~loaded'[k].Rule.Enabled
                  /\ (enable /\ disable) => ~loaded'[k].Rule.Enabled
                  /\ (~enable /\ ~disable) => loaded'[k] = loaded[k]]_vars

\* --enable " A" and --disable b,c were applied: rule a, disabled by the local
\* file, is enabled, and rule "B " is disabled.
C26_Witness ==
    /\ rulesPc = "applied"
    /\ cli.enable = <<<<" ", "A">>>>
    /\ cli.disable = <<<<"b">>, <<"c">>>>
    /\ \E k \in 1..Len(loaded) :
          /\ loaded[k].Rule.ID = <<"a">>
          /\ loaded[k].Rule.Enabled
          /\ loaded[k].SourceChain = <<"base", "local", "cli">>
    /\ \E k \in 1..Len(loaded) :
          /\ loaded[k].Rule.ID = <<"B", " ">>
          /\ ~loaded[k].Rule.Enabled
          /\ loaded[k].SourceChain = <<"base", "cli">>

\* The source chains that list their sources once, in the order base, local, cli.
OrderedChains ==
    {<<"base">>, <<"local">>, <<"base", "local">>, <<"base", "cli">>, <<"local", "cli">>,
     <<"base", "local", "cli">>}

ChainsOrdered ==
    rulesPc \in {"loaded", "applied"} =>
        \A k \in 1..Len(loaded) :
            /\ loaded[k].SourceChain \in OrderedChains
            /\ Cardinality({n \in 1..Len(loaded[k].SourceChain) :
                                loaded[k].SourceChain[n] = "cli"}) <= 1

\* A call with the lists of the call before it.
SameListsAgain ==
    /\ rulesPc = "applied"
    /\ rulesPc' = "applied"
    /\ cli'.enable = cli.enable
    /\ cli'.disable = cli.disable

\* C27: after any number of ApplyCLIOverrides calls on rules from Load, each
\* SourceChain holds "cli" at most once, holds no source twice and lists its
\* sources in the order base, local, cli; applying the same override lists
\* again gives the result of applying them once.
C27_CLIIdempotent ==
    /\ []ChainsOrdered
    /\ [][SameListsAgain => loaded' = loaded]_vars

\* Three calls were made, the last with lists that name rule a, whose chain
\* is base, local, cli.
C27_Witness ==
    /\ rulesPc = "applied"
    /\ cli.calls = 3
    /\ cli.enable = <<<<"a">>, <<"zz">>, <<" ">>>>
    /\ \E k \in 1..Len(loaded) :
          /\ loaded[k].Rule.ID = <<"a">>
          /\ loaded[k].SourceChain = <<"base", "local", "cli">>

\* ------------------------------------------------------------------ Part 8: permission engine and apply path

\* io.Prompt on the reader's next line: [resp, err]. `in` is [line, err]: the
\* text ReadString returned and whether it returned an error with it.
Prompt(in) ==
    IF in.err /\ in.line = <<>> THEN [resp |-> <<>>, err |-> <<"EOF">>]
    ELSE [resp |-> Trim(in.line, Whitespace), err |-> NoError]

anyAnswer(s) == Trim(s, Whitespace) # <<>>

isYes(s) ==
    LET v == ToLower(Trim(s, Whitespace))
    IN  v = <<"y">> \/ v = <<"yes">>

\* What an approval call returns, and whether it prompted.
Approval(ok, err, prompted) == [ok |-> ok, err |-> err, prompted |-> prompted]

\* Engine.ApproveFile(io, file, changes)
ApproveFile(e, in) ==
    IF e.AutoApply \/ e.NonInteractive THEN Approval(TRUE, NoError, FALSE)
    ELSE IF e.Mode = "per-edit" THEN Approval(TRUE, NoError, FALSE)
    ELSE IF Prompt(in).err # NoError THEN Approval(FALSE, Prompt(in).err, TRUE)
    ELSE Approval(isYes(Prompt(in).resp), NoError, TRUE)

\* Engine.ApproveEdit(io, file, desc)
ApproveEdit(e, in) ==
    IF e.AutoApply \/ e.NonInteractive THEN Approval(TRUE, NoError, FALSE)
    ELSE IF e.Mode # "per-edit" THEN Approval(TRUE, NoError, FALSE)
    ELSE IF Prompt(in).err # NoError THEN Approval(FALSE, Prompt(in).err, TRUE)
    ELSE Approval(isYes(Prompt(in).resp), NoError, TRUE)

\* fileGroups[e.File] = append(fileGroups[e.File], e) over plan.Edits; the
\* groups are kept in a list, one [file, edits] per file.
RECURSIVE fileGroups(_, _)
fileGroups(edits, groups) ==
    IF edits = <<>> THEN groups
    ELSE LET e == Head(edits)
         IN  IF \E g \in 1..Len(groups) : groups[g].file = e.File
             THEN fileGroups(Tail(edits),
                             [g \in 1..Len(groups) |->
                                 IF groups[g].file = e.File
                                 THEN [groups[g] EXCEPT !.edits = Append(@, e)]
                                 ELSE groups[g]])
             ELSE fileGroups(Tail(edits), Append(groups, [file |-> e.File, edits |-> <<e>>]))

collectAll(edits, e, ok) == Append(edits, e)

\* if ok { approved.Edits = append(approved.Edits, e) }
collect(edits, e, ok) == IF ok THEN Append(edits, e) ELSE edits

Without(seq, g) == [i \in 1..(Len(seq) - 1) |-> IF i < g THEN seq[i] ELSE seq[i + 1]]

\* The loop of ApplyPlan from edit i on. `changes` are the edits whose file
\* content the edit changes (next != orig); `failAt` is the edit whose file
\* cannot be read, 0 for none. out = [applied, written, err].
RECURSIVE applyLoop(_, _, _, _, _, _)
applyLoop(edits, dry, changes, failAt, i, out) ==
    IF i > Len(edits) THEN out
    ELSE IF Contains(ToLower(edits[i].Description), <<"analysis", " ", "suggestion">>)
    THEN applyLoop(edits, dry, changes, failAt, i + 1,
                   [out EXCEPT !.applied = Append(@, edits[i])])
    ELSE IF failAt = i THEN [out EXCEPT !.err = <<"read file">>]
    ELSE IF edits[i] \in changes
    THEN applyLoop(edits, dry, changes, failAt, i + 1,
                   [out EXCEPT !.applied = Append(@, [edits[i] EXCEPT !.Applied = TRUE]),
                               !.written = IF dry THEN @ ELSE Append(@, edits[i])])
    ELSE applyLoop(edits, dry, changes, failAt, i + 1,
                   [out EXCEPT !.applied = Append(@, edits[i])])

\* cleanup.ApplyPlan(plan, opts, safe, aggressive, dryRun)
ApplyPlan(edits, dry, changes, failAt) ==
    applyLoop(edits, dry, changes, failAt, 1,
              [applied |-> <<>>, written |-> <<>>, err |-> NoError])

\* ------------------------------------------------------------------ apply path inputs

\* Edits of a candidate plan.
MaxCandidateEdits == 3

NormalizeDescription ==
    <<"Normalize", " ", "whitespace", " ", "and", " ", "collapse", " ", "excessive", " ",
      "blank", " ", "lines">>

GuardDescription ==
    <<"Remove", " ", "redundant", " ", "always", "-", "true", " ", "guard", " ", "conditions">>

AnalysisDescription ==
    <<"Potential", " ", "expensive", " ", "nested", " ", "loops", " ", "detected", " ",
      "(", "analysis", " ", "suggestion", ")">>

CandidateEdit(file, desc) == [File |-> file, Description |-> desc, Applied |-> FALSE]

\* The edits BuildPlan can propose for one file, in the order it appends them.
FileEdits(file) ==
    {SelectSeq(<<CandidateEdit(file, NormalizeDescription),
                 CandidateEdit(file, GuardDescription),
                 CandidateEdit(file, AnalysisDescription)>>,
               LAMBDA e : e.Description \in keep) :
        keep \in SUBSET {NormalizeDescription, GuardDescription, AnalysisDescription}}

\* The plans BuildPlan can return for a project of two files.
CandidatePlans ==
    {a \o b : a \in FileEdits("a.go"), b \in FileEdits("b.go")}

Engines ==
    [Mode : {"per-file", "per-edit"}, AutoApply : BOOLEAN, NonInteractive : BOOLEAN]

\* What the reader returns to a prompt: "y", " Yes ", "n", a last line "yes"
\* without newline, and the end of input.
PromptInputs ==
    {[line |-> <<"y", "\n">>, err |-> FALSE],
     [line |-> <<" ", "Yes", " ", "\n">>, err |-> FALSE],
     [line |-> <<"n", "\n">>, err |-> FALSE],
     [line |-> <<"yes">>, err |-> TRUE],
     [line |-> <<>>, err |-> TRUE]}

\* No prompt was made.
NoInput == [line |-> <<>>, err |-> FALSE]

\* The variables the apply path leaves alone.
notApply == <<executorVars, plannerVars, retryVars, transformVars, rulesVars, walkVars, toggleVars, runnerVars>>

InitApply ==
    /\ ExecutorIdle
    /\ PlannerIdle
    /\ RetryIdle
    /\ TransformIdle
    /\ RulesIdle
    /\ WalkIdle
    /\ ToggleIdle
    /\ RunnerIdle
    /\ apIn \in [engine : Engines,
                 edits : {p \in CandidatePlans : Len(p) <= MaxCandidateEdits},
                 dryRun : BOOLEAN]
    /\ apPc = "group"
    /\ apGroups = <<>>
    /\ apCur = <<>>
    /\ approved = <<>>
    /\ apCalls = <<>>
    /\ apOut = <<>>

\* for _, e := range plan.Edits { fileGroups[e.File] = append(...) }
GroupEdits ==
    /\ apPc = "group"
    /\ apGroups' = fileGroups(apIn.edits, <<>>)
    /\ apPc' = IF apIn.edits = <<>> THEN "apply" ELSE "files"
    /\ UNCHANGED <<apIn, apCur, approved, apCalls, apOut>>
    /\ UNCHANGED notApply

\* One pass of `for file, edits := range fileGroups` up to the inner loop:
\* the map yields any file not visited yet.
AskFile ==
    /\ apPc = "files"
    /\ \E g \in 1..Len(apGroups), in \in PromptInputs :
          LET r == ApproveFile(apIn.engine, in)
              rest == Without(apGroups, g)
          IN  /\ apCalls' = Append(apCalls,
                                   [fn |-> "ApproveFile",
                                    file |-> apGroups[g].file,
                                    desc |-> <<>>,
                                    in |-> IF r.prompted THEN in ELSE NoInput,
                                    ret |-> r])
              /\ IF r.err # NoError
                 THEN /\ apPc' = "failed"
                      /\ UNCHANGED <<apGroups, apCur>>
                 ELSE IF ~r.ok
                 THEN /\ apGroups' = rest
                      /\ apPc' = IF rest = <<>> THEN "apply" ELSE "files"
                      /\ UNCHANGED apCur
                 ELSE /\ apGroups' = rest
                      /\ apCur' = [file |-> apGroups[g].file, edits |-> apGroups[g].edits]
                      /\ apPc' = "edits"
    /\ UNCHANGED <<apIn, approved, apOut>>
    /\ UNCHANGED notApply

\* One pass of `for _, e := range edits`.
AskEdit ==
    /\ apPc = "edits"
    /\ \E in \in PromptInputs :
          LET e == Head(apCur.edits)
              r == ApproveEdit(apIn.engine, in)
          IN  /\ apCalls' = Append(apCalls,
                                   [fn |-> "ApproveEdit",
                                    file |-> e.File,
                                    desc |-> e.Description,
                                    in |-> IF r.prompted THEN in ELSE NoInput,
                                    ret |-> r])
              /\ IF r.err # NoError
                 THEN /\ apPc' = "failed"
                      /\ UNCHANGED <<apCur, approved>>
                 ELSE /\ approved' = collect(approved, e, r.ok)
                      /\ apCur' = [apCur EXCEPT !.edits = Tail(@)]
                      /\ apPc' = IF Tail(apCur.edits) # <<>> THEN "edits"
                                 ELSE IF apGroups = <<>> THEN "apply"
                                 ELSE "files"
    /\ UNCHANGED <<apIn, apGroups, apOut>>
    /\ UNCHANGED notApply

\* applied, err := cleanup.ApplyPlan(approved, ..., DryRun)
CallApplyPlan ==
    /\ apPc = "apply"
    /\ \E changes \in SUBSET Range(approved), failAt \in 0..Len(approved) :
          LET out == ApplyPlan(approved, apIn.dryRun, changes, failAt)
          IN  apOut' = [handed |-> approved, applied |-> out.applied,
                        written |-> out.written, err |-> out.err]
    /\ apPc' = "done"
    /\ UNCHANGED <<apIn, apGroups, apCur, approved, apCalls>>
    /\ UNCHANGED notApply

NextApply ==
    \/ GroupEdits
    \/ AskFile
    \/ AskEdit
    \/ CallApplyPlan

SpecApply == InitApply /\ [][NextApply]_vars

\* ------------------------------------------------------------------ apply path claims

\* The engine never prompts.
Unattended == apIn.engine.AutoApply \/ apIn.engine.NonInteractive

\* The call is the gate of the engine's mode.
IsGate(c) ==
    \/ c.fn = "ApproveFile" /\ apIn.engine.Mode = "per-file"
    \/ c.fn = "ApproveEdit" /\ apIn.engine.Mode = "per-edit"

\* The line read is "y" or "yes", trimmed and case-insensitive.
SaysYes(in) == Folded(in.line) \in {<<"y">>, <<"yes">>}

\* C28: with AutoApply or NonInteractive set, ApproveFile and ApproveEdit
\* return true without prompting; otherwise in "per-file" mode ApproveEdit
\* returns true without prompting and ApproveFile returns the user's answer,
\* in "per-edit" mode ApproveFile returns true without prompting and
\* ApproveEdit returns the user's answer; an answer approves only when it is
\* "y" or "yes", trimmed and case-insensitive.
C28_DecisionTable ==
    \A n \in 1..Len(apCalls) :
        LET c == apCalls[n]
        IN  /\ (Unattended \/ ~IsGate(c)) =>
                  (c.ret.ok /\ ~c.ret.prompted /\ c.ret.err = NoError)
            /\ (~Unattended /\ IsGate(c)) =>
                  /\ c.ret.prompted
                  /\ c.ret.err = NoError => (c.ret.ok <=> SaysYes(c.in))
                  /\ c.ret.err # NoError => ~c.ret.ok

\* In per-edit mode with prompts on, ApproveFile returned true unprompted,
\* ApproveEdit approved on " Yes " and declined on "n".
C28_Witness ==
    /\ apPc = "done"
    /\ ~Unattended
    /\ apIn.engine.Mode = "per-edit"
    /\ \E n \in 1..Len(apCalls) :
          apCalls[n].fn = "ApproveFile" /\ apCalls[n].ret.ok /\ ~apCalls[n].ret.prompted
    /\ \E n \in 1..Len(apCalls) :
          /\ apCalls[n].fn = "ApproveEdit"
          /\ apCalls[n].in.line = <<" ", "Yes", " ", "\n">>
          /\ apCalls[n].ret.ok
    /\ \E n \in 1..Len(apCalls) :
          /\ apCalls[n].fn = "ApproveEdit"
          /\ apCalls[n].in.line = <<"n", "\n">>
          /\ ~apCalls[n].ret.ok

\* The ApproveFile calls for the file, and the ones that approved it.
FileCalls(file) ==
    {n \in 1..Len(apCalls) : apCalls[n].fn = "ApproveFile" /\ apCalls[n].file = file}

FileApproved(file) == \E n \in FileCalls(file) : apCalls[n].ret.ok

\* ApproveEdit approved the edit.
EditApproved(e) ==
    \E n \in 1..Len(apCalls) :
        /\ apCalls[n].fn = "ApproveEdit"
        /\ apCalls[n].file = e.File
        /\ apCalls[n].desc = e.Description
        /\ apCalls[n].ret.ok

PrunedDirs == {".git", ".ccc", "node_modules", "vendor", "dist", "build", "bin"}

\* filepath.Ext(path): the suffix from the last dot on.
Ext(path) ==
    IF Len(path) >= 2 /\ path[Len(path) - 1] = "." THEN SubSeq(path, Len(path) - 1, Len(path))
    ELSE <<>>

\* ext != ".go" && ext != ".js" && ext != ".ts" && ext != ".py" is false.
supported(path) ==
    ToLower(Ext(path)) \in {<<".", "go">>, <<".", "js">>, <<".", "ts">>, <<".", "py">>}

\* What the callback of filepath.WalkDir does for the file `f`, with the
\* entries `files` appended so far: [files, err].
visit(f, files) ==
    IF f.Dir \in PrunedDirs THEN [files |-> files, err |-> NoError]
    ELSE IF ~supported(f.Path) THEN [files |-> files, err |-> NoError]
    ELSE IF ~f.readable THEN [files |-> files, err |-> <<"read file">>]
    ELSE [files |-> Append(files, [Path |-> f.Path, Content |-> f.Content]),
          err |-> NoError]

\* ------------------------------------------------------------------ snapshot inputs

\* Files under projectRoot.
MaxWalkFiles == 3

\* The i-th file of the walk: its directory, its extension, whether
\* os.ReadFile succeeds on it.
WalkFile(i, dir, ext, readable) ==
    [Dir |-> dir,
     Path |-> <<dir, "/", "f">> \o Digits(i) \o <<".", ext>>,
     Content |-> <<"x", Digit(i)>>,
     readable |-> readable]

WalkTrees ==
    UNION {{t \in [1..n -> [dir : {"src", "vendor"}, ext : {"go", "GO", "md"},
                            readable : BOOLEAN]] :
                \A i \in 1..n : t[i].dir = "vendor" => (t[i].ext = "go" /\ ~t[i].readable)} :
           n \in 0..MaxWalkFiles}

\* The variables the snapshot walk leaves alone.
notWalk == <<executorVars, plannerVars, retryVars, transformVars, rulesVars, applyVars, toggleVars, runnerVars>>

InitWalk ==
    /\ ExecutorIdle
    /\ PlannerIdle
    /\ RetryIdle
    /\ TransformIdle
    /\ RulesIdle
    /\ ApplyIdle
    /\ \E t \in WalkTrees :
          walkTree = [i \in 1..Len(t) |-> WalkFile(i, t[i].dir, t[i].ext, t[i].readable)]
    /\ walkPc = "walk"
    /\ walkNext = 1
    /\ walkFiles = <<>>
    /\ walkRet = <<>>
    /\ ToggleIdle
    /\ RunnerIdle

\* The walk calls the callback on the next file; an error of the callback
\* ends the walk and BuildProjectSnapshot returns files, err.
VisitFile ==
    /\ walkPc = "walk"
    /\ walkNext <= Len(walkTree)
    /\ LET out == visit(walkTree[walkNext], walkFiles)
       IN  IF out.err # NoError
           THEN /\ walkRet' = [files |-> out.files, err |-> out.err]
                /\ walkPc' = "returned"
                /\ UNCHANGED <<walkNext, walkFiles>>
           ELSE /\ walkFiles' = out.files
                /\ walkNext' = walkNext + 1
                /\ UNCHANGED <<walkPc, walkRet>>
    /\ UNCHANGED walkTree
    /\ UNCHANGED notWalk

\* The walk is over: return files, err.
ReturnSnapshot ==
    /\ walkPc = "walk"
    /\ walkNext > Len(walkTree)
    /\ walkRet' = [files |-> walkFiles, err |-> NoError]
    /\ walkPc' = "returned"
    /\ UNCHANGED <<walkTree, walkNext, walkFiles>>
    /\ UNCHANGED notWalk

NextWalk ==
    \/ VisitFile
    \/ ReturnSnapshot

SpecWalk == InitWalk /\ [][NextWalk]_vars

\* ------------------------------------------------------------------ snapshot claims

\* C30: BuildProjectSnapshot is all-or-nothing: when reading a supported file
\* fails, the call returns an error and no ProjectFile entry.
C30_AllOrNothing ==
    (walkPc = "returned" /\ walkRet.err # NoError) => walkRet.files = <<>>

\* ------------------------------------------------------------------ executor claims, continued

\* The oracle answered in this step of a recorded run, with this response.
Answered == Len(memo') = Len(memo) + 1 /\ ~Last(memo').failed

\* The paths of the response that pass the change loop's filter.
EffectiveChanges(res) ==
    {p \in DOMAIN res.ChangedFiles : p \in DOMAIN current /\ res.ChangedFiles[p] # current[p]}

\* C31: the oracle's Changed flag is informational only and the emptiness of
\* the filtered ChangedFiles decides the outcome: a response with a
\* ChangedFiles entry whose content differs from the WorkingCopy yields an
\* Edit and the WorkingCopy update whatever the value of Changed is.
C31_ChangedFlagInformational ==
    [][Answered =>
        \A p \in EffectiveChanges(Last(memo').res) :
            /\ current'[p] = Last(memo').res.ChangedFiles[p]
            /\ \E i \in (Len(plan) + 1)..Len(plan') : plan'[i].File = p]_vars

\* The task that emitted the event, and the task that produced the edit.
TaskOfEvent(e) == CHOOSE k \in 1..Len(tasks) : tasks[k].RuleID = e.RuleID

TaskOfEdit(e) == CHOOSE k \in 1..Len(tasks) : tasks[k].RuleID = e.Description[1]

EventsOf(k) == SelectSeq(events, LAMBDA e : e.RuleID = tasks[k].RuleID)

EditsOf(k) == SelectSeq(plan, LAMBDA e : e.Description[1] = tasks[k].RuleID)

\* The events after the first one.
AfterRunning(evs) == Tail(evs)

\* One "changed" event per Edit, for the Edits' files in order.
ChangedPerEdit(evs, edits) ==
    /\ Len(evs) = Len(edits)
    /\ \A i \in 1..Len(evs) : evs[i].Phase = "changed" /\ evs[i].File = edits[i].File

\* C38: the events of every executed task are one "running" event before
\* the oracle call, then exactly one terminal outcome: one "error" event, one
\* "no_change" event, or one "changed" event per Edit of the task; events of
\* different tasks are not interleaved and no event follows an abort.
C38_EventsPerTask ==
    /\ pc = "oracle" =>
          (Last(events).Phase = "running" /\ Last(events).RuleID = tasks[ti].RuleID)
    /\ \A i, j \in 1..Len(events) :
          i < j => TaskOfEvent(events[i]) <= TaskOfEvent(events[j])
    /\ Returned =>
          /\ \A k \in 1..Len(tasks) : k \notin Range(oracleCalls) => EventsOf(k) = <<>>
          /\ \A k \in Range(oracleCalls) :
                /\ EventsOf(k) # <<>>
                /\ EventsOf(k)[1].Phase = "running"
                /\ AfterRunning(EventsOf(k)) # <<>>
                /\ \/ /\ Len(AfterRunning(EventsOf(k))) = 1
                      /\ AfterRunning(EventsOf(k))[1].Phase \in {"error", "no_change"}
                      /\ EditsOf(k) = <<>>
                   \/ ChangedPerEdit(AfterRunning(EventsOf(k)), EditsOf(k))

\* C39: a task only changes files in its own scope: every Edit it produces,
\* every WorkingCopy entry it updates and every file it writes is a path of
\* the task's Files.
C39_TaskScope ==
    /\ \A i \in 1..Len(plan) : plan[i].File \in Range(tasks[TaskOfEdit(plan[i])].Files)
    /\ \A i \in 1..Len(changeLog) : changeLog[i][2] \in Range(tasks[changeLog[i][1]].Files)
    /\ \A i \in 1..Len(writeLog) : writeLog[i][2] \in Range(tasks[writeLog[i][1]].Files)

\* The task wrote the path to disk.
Written(k, path) == \E i \in 1..Len(writeLog) : writeLog[i][1] = k /\ writeLog[i][2] = path

TaskOfResult(r) == CHOOSE k \in 1..Len(tasks) : tasks[k].ID = r.TaskID

\* C40: when ExecuteTaskPlan returns from a non-dry run, every Edit with
\* Applied=true and every path in the ChangedFiles of a TaskResult with
\* Applied=true is a file whose content was written to disk.
C40_AppliedMeansWritten ==
    (Returned /\ ~dryRun) =>
        /\ \A i \in 1..Len(ret.applied) :
              ret.applied[i].Applied =>
                  Written(TaskOfEdit(ret.applied[i]), ret.applied[i].File)
        /\ \A i \in 1..Len(ret.results) :
              ret.results[i].Applied =>
                  \A p \in Range(ret.results[i].ChangedFiles) :
                      Written(TaskOfResult(ret.results[i]), p)

\* ------------------------------------------------------------------ planner claims, continued

\* The positions of the snapshot files the keyword case of rule r accepts.
HitIndices(r) ==
    {i \in 1..Len(planFiles) : include(ruleText(r), ToLower(planFiles[i].Content))}

\* The candidate positions of rule r: the accepted ones, or all when none is.
CandidateIndices(r) ==
    IF HitIndices(r) = {} THEN 1..Len(planFiles) ELSE HitIndices(r)

RECURSIVE Ascending(_)
Ascending(S) ==
    IF S = {} THEN <<>>
    ELSE LET m == CHOOSE x \in S : \A y \in S : x <= y
         IN  <<m>> \o Ascending(S \ {m})

Min(a, b) == IF a <= b THEN a ELSE b

\* C36: a Task's Files is the first min(24, n) paths, in snapshot order, of
\* the candidate list (the files matched by the rule's keyword case when that
\* match is non-empty, otherwise all snapshot files); Files holds no path
\* outside the snapshot and repeats no path.
C36_FilesArePrefixOfCandidates ==
    (PlanReturned /\ Len(planFiles) > 0) =>
        \A k \in 1..Len(planOut) :
            LET cand == Ascending(CandidateIndices(planRules[k]))
                files == planOut[k].Files
            IN  /\ Len(files) = Min(24, Len(cand))
                /\ \A j \in 1..Len(files) : files[j] = planFiles[cand[j]].Path
                /\ Range(files) \subseteq Range(PathsOf(planFiles))
                /\ \A i, j \in 1..Len(files) : files[i] = files[j] => i = j

\* A snapshot above the cap: one rule's keyword case accepts some files
\* but not all of them, the other rule's candidates were cut to 24.
C36_Witness ==
    /\ PlanReturned
    /\ Len(planFiles) > 24
    /\ Len(planOut) = 2
    /\ Cardinality(HitIndices(planRules[1])) \in 1..(Len(planFiles) - 1)
    /\ Len(planOut[1].Files) = Cardinality(HitIndices(planRules[1]))
    /\ Cardinality(CandidateIndices(planRules[2])) > 24
    /\ Len(planOut[2].Files) = 24

\* The original content of a file reads the environment.
ReadsEnvironment(f) ==
    \/ Contains(f.Content, <<"os", ".", "Getenv">>)
    \/ Contains(f.Content, <<"process", ".", "env">>)

\* The text of rule r reaches the environment-variable case of the switch.
IsEnvironmentRule(r) ==
    /\ ~Contains(ruleText(r), <<"redundant", " ", "guard">>)
    /\ ~Contains(ruleText(r), <<"dry">>)
    /\ ~Contains(ruleText(r), <<"duplicate">>)
    /\ ~Contains(ruleText(r), <<"error", " ", "handling">>)
    /\ \/ Contains(ruleText(r), <<"environment", " ", "variable">>)
       \/ Contains(ruleText(r), <<"gate", " ", "features">>)

\* C37: for an environment-variable rule, every snapshot file that reads the
\* environment through os.Getenv or process.env is a candidate of the rule's
\* Task, also when other files match.
C37_EnvironmentFilesAreCandidates ==
    PlanReturned =>
        \A k \in 1..Len(planRules) :
            IsEnvironmentRule(planRules[k]) =>
                \A i \in 1..Len(planFiles) :
                    ReadsEnvironment(planFiles[i]) =>
                        planFiles[i].Path \in
                            Range(orAllFiles(matched(planFiles, planRules[k]), planFiles))

\* ------------------------------------------------------------------ rule store claims, continued

\* The IDs of the base entries Load keeps.
KeptBaseIDs == {baseFile.Rules[i].ID : i \in KeptBaseIndices}

\* The local entries that bring a new ID: valid, not a kept base ID, and no
\* valid local entry before them has the same ID.
FirstLocalIndices ==
    IF ~Usable(localFile) THEN {}
    ELSE {j \in 1..Len(localFile.Rules) :
            /\ ValidEntry(localFile.Rules[j])
            /\ localFile.Rules[j].ID \notin KeptBaseIDs
            /\ \A h \in 1..(j - 1) :
                  ~(ValidEntry(localFile.Rules[h])
                    /\ localFile.Rules[h].ID = localFile.Rules[j].ID)}

\* Base first, then the new local IDs, each group in file order.
BaseFirstOrder ==
    LET b == Ascending(KeptBaseIndices)
        l == Ascending(FirstLocalIndices)
    IN  [k \in 1..Len(b) |-> baseFile.Rules[b[k]].ID]
        \o [k \in 1..Len(l) |-> localFile.Rules[l[k]].ID]

\* C35: the list returned by Load is ordered base-first: the surviving base
\* rules in base-file order, then the IDs that appear only in the local file
\* in the order of their first appearance there; a local entry that overrides
\* a base rule does not change that rule's position.
C35_BaseFirstOrder ==
    LoadReturnedRules =>
        [k \in 1..Len(loaded) |-> loaded[k].Rule.ID] = BaseFirstOrder

\* Two base rules, a local file that first adds a rule and then overrides
\* the first base rule: the overridden rule is still first, the new one last.
C35_Witness ==
    /\ LoadReturnedRules
    /\ Len(loaded) = 3
    /\ loaded[1].SourceChain = <<"base", "local">>
    /\ loaded[2].SourceChain = <<"base">>
    /\ loaded[3].SourceChain = <<"local">>
    /\ Len(localFile.Rules) = 2
    /\ localFile.Rules[1].ID = loaded[3].Rule.ID
    /\ localFile.Rules[2].ID = loaded[1].Rule.ID

\* ------------------------------------------------------------------ Part 10: the toggle list

\* ToggleItem.Selectable
Selectable(item) == item.DisabledReason = <<>>

\* firstSelectableIndex: the 0-based index of the first selectable item, -1
\* when there is none.
firstSelectableIndex(items) ==
    IF \E i \in 1..Len(items) : Selectable(items[i])
    THEN (CHOOSE i \in 1..Len(items) :
              /\ Selectable(items[i])
              /\ \A h \in 1..(i - 1) : ~Selectable(items[h])) - 1
    ELSE -1

\* NewToggleList(items)
NewToggleList(items) ==
    [Items |-> items,
     Cursor |-> IF firstSelectableIndex(items) < 0 THEN 0 ELSE firstSelectableIndex(items)]

\* One step of the cursor with the wrap at both ends.
step(items, next, delta) ==
    LET n == next + delta
        low == IF n < 0 THEN Len(items) - 1 ELSE n
    IN  IF low >= Len(items) THEN 0 ELSE low

\* The loop of move: at most len(Items) steps, the first selectable item
\* ends it; the cursor stays when no step finds one.
RECURSIVE scan(_, _, _, _, _)
scan(items, cursor, next, delta, left) ==
    IF left = 0 THEN cursor
    ELSE LET n == step(items, next, delta)
         IN  IF Selectable(items[n + 1]) THEN n
             ELSE scan(items, cursor, n, delta, left - 1)

moveOneStep(items, cursor, delta) ==
    IF Len(items) = 0 THEN cursor ELSE step(items, cursor, delta)

\* ToggleList.move(delta): the new cursor.
move(items, cursor, delta) ==
    IF Len(items) = 0 THEN cursor ELSE scan(items, cursor, cursor, delta, Len(items))

\* ToggleList.ToggleCurrent: the items afterwards and the two return values.
ToggleCurrent(items, cursor) ==
    IF Len(items) = 0
    THEN [items |-> items, changed |-> FALSE, reason |-> <<"no items to toggle">>]
    ELSE IF ~Selectable(items[cursor + 1])
    THEN [items |-> items, changed |-> FALSE, reason |-> items[cursor + 1].DisabledReason]
    ELSE [items |-> [items EXCEPT ![cursor + 1].Enabled = ~@],
          changed |-> TRUE, reason |-> <<>>]

\* ------------------------------------------------------------------ toggle list inputs

\* Items per list.
MaxItems == 3

ToggleItem(id, enabled, reason) ==
    [ID |-> id, Details |-> <<>>, Enabled |-> enabled, DisabledReason |-> reason]

\* Lists of up to MaxItems items, each enabled or not, blocked or not.
ToggleItemLists ==
    UNION {{[i \in 1..n |-> ToggleItem(i, e[i], r[i])] :
              e \in [1..n -> BOOLEAN], r \in [1..n -> {<<>>, <<"blocked">>}]} :
           n \in 0..MaxItems}

\* The variables the toggle list leaves alone.
notToggle ==
    <<executorVars, plannerVars, retryVars, transformVars, rulesVars, applyVars, walkVars,
      runnerVars>>

InitToggleList ==
    /\ ExecutorIdle
    /\ PlannerIdle
    /\ RetryIdle
    /\ TransformIdle
    /\ RulesIdle
    /\ ApplyIdle
    /\ WalkIdle
    /\ RunnerIdle
    /\ tlRoutes = <<>>
    /\ tlDeps = <<>>
    /\ tlItems \in ToggleItemLists
    /\ tlCursor = 0
    /\ tlPc = "new"
    /\ tlLast = <<>>
    /\ tlSelected = <<>>

\* l := NewToggleList(items)
CallNewToggleList ==
    /\ tlPc = "new"
    /\ tlCursor' = NewToggleList(tlItems).Cursor
    /\ tlPc' = "ready"
    /\ UNCHANGED <<tlRoutes, tlDeps, tlItems, tlLast, tlSelected>>
    /\ UNCHANGED notToggle

\* l.MoveUp()
MoveUp ==
    /\ tlPc = "ready"
    /\ tlCursor' = move(tlItems, tlCursor, -1)
    /\ UNCHANGED <<tlRoutes, tlDeps, tlItems, tlPc, tlLast, tlSelected>>
    /\ UNCHANGED notToggle

\* l.MoveDown()
MoveDown ==
    /\ tlPc = "ready"
    /\ tlCursor' = move(tlItems, tlCursor, 1)
    /\ UNCHANGED <<tlRoutes, tlDeps, tlItems, tlPc, tlLast, tlSelected>>
    /\ UNCHANGED notToggle

\* changed, reason := l.ToggleCurrent()
CallToggleCurrent ==
    /\ tlPc = "ready"
    /\ LET t == ToggleCurrent(tlItems, tlCursor)
       IN  /\ tlItems' = t.items
           /\ tlLast' = <<[changed |-> t.changed, reason |-> t.reason,
                           cursor |-> tlCursor, before |-> tlItems]>>
    /\ UNCHANGED <<tlRoutes, tlDeps, tlCursor, tlPc, tlSelected>>
    /\ UNCHANGED notToggle

NextToggleList ==
    \/ CallNewToggleList
    \/ MoveUp
    \/ MoveDown
    \/ CallToggleCurrent

SpecToggleList == InitToggleList /\ [][NextToggleList]_vars

\* ------------------------------------------------------------------ toggle list claims

\* At least one item of the list is selectable.
SomeSelectable == \E i \in 1..Len(tlItems) : Selectable(tlItems[i])

\* C34: for a ToggleList built by NewToggleList, after any sequence of MoveUp
\* and MoveDown the Cursor is a valid index and, whenever at least one item
\* is selectable, points at a selectable item; with exactly one selectable
\* item the cursor stays on it.
C34_CursorValidOnEveryList ==
    tlPc = "ready" =>
        /\ tlCursor \in 0..(Len(tlItems) - 1)
        /\ SomeSelectable => Selectable(tlItems[tlCursor + 1])

\* C34, for the lists that have an index at all: for a non-empty ToggleList
\* built by NewToggleList, after any sequence of MoveUp and MoveDown the
\* Cursor is a valid index and, whenever at least one item is selectable,
\* points at a selectable item, so that it stays on the only selectable one.
\* The cursor of an empty list is 0.
C34_CursorOnSelectable ==
    tlPc = "ready" =>
        /\ Len(tlItems) > 0 =>
              /\ tlCursor \in 0..(Len(tlItems) - 1)
              /\ SomeSelectable => Selectable(tlItems[tlCursor + 1])
        /\ Len(tlItems) = 0 => tlCursor = 0

\* The cursor went from the first item past a blocked one to the last item.
C34_Witness ==
    /\ tlPc = "ready"
    /\ Len(tlItems) = 3
    /\ Selectable(tlItems[1])
    /\ ~Selectable(tlItems[2])
    /\ Selectable(tlItems[3])
    /\ tlCursor = 2

\* ------------------------------------------------------------------ Part 11: the route-selection step

noDependents(deps, routeID) == <<>>

\* dependentRoutes(deps, routeID): the routes that list routeID among their
\* requirements. The code ranges over a map, so the order is unspecified;
\* only the length is used.
dependentRoutes(deps, routeID) ==
    Ascending({route \in DOMAIN deps : routeID \in Range(deps[route])})

\* fmt.Sprintf("required by %d enabled route(s)", len(dependents))
RequiredBy(n) ==
    <<"required", " ", "by", " ">> \o Digits(n)
        \o <<" ", "enabled", " ", "route", "(", "s", ")">>

\* The items of Step 2: every route enabled, the routes others require blocked.
routeItems(filtered, deps) ==
    [i \in 1..Len(filtered) |->
        LET dependents == dependentRoutes(deps, filtered[i])
        IN  [ID |-> filtered[i],
             Details |-> deps[filtered[i]],
             Enabled |-> TRUE,
             DisabledReason |-> IF Len(dependents) > 0 THEN RequiredBy(Len(dependents))
                                ELSE <<>>]]

\* selectedRoutes(routes, list): the routes whose item is enabled, in route order.
selectedRoutes(routes, items) ==
    SelectSeq(routes, LAMBDA r : \E i \in 1..Len(items) : items[i].ID = r /\ items[i].Enabled)

\* ------------------------------------------------------------------ route-selection inputs

\* Discovered routes.
MaxRoutes == 3

RouteIDs == 1..MaxRoutes

\* The graphs dependency.Detect builds by itself: every route that requires
\* authentication requires every authentication route. A route without an
\* entry has the empty list.
DetectGraphs ==
    {[r \in RouteIDs |-> IF r \in Q THEN Ascending(A) ELSE <<>>] :
        A \in SUBSET RouteIDs, Q \in SUBSET RouteIDs}

\* Graphs the fallback may infer: any route may require any one route.
InferredGraphs == [RouteIDs -> {<<>>} \cup {<<r>> : r \in RouteIDs}]

\* The dependency graphs of the step.
Graphs == DetectGraphs \cup InferredGraphs

\* Route lists: any routes, in any order, none twice.
RouteLists ==
    UNION {{l \in [1..n -> RouteIDs] : \A i, j \in 1..n : l[i] = l[j] => i = j} :
           n \in 0..MaxRoutes}

InitRouteSelection ==
    /\ ExecutorIdle
    /\ PlannerIdle
    /\ RetryIdle
    /\ TransformIdle
    /\ RulesIdle
    /\ ApplyIdle
    /\ WalkIdle
    /\ RunnerIdle
    /\ tlRoutes \in RouteLists
    /\ tlDeps \in Graphs
    /\ tlItems = <<>>
    /\ tlCursor = 0
    /\ tlPc = "step2"
    /\ tlLast = <<>>
    /\ tlSelected = <<>>

\* Step 2 builds the items and the list.
BuildRouteList ==
    /\ tlPc = "step2"
    /\ tlItems' = routeItems(tlRoutes, tlDeps)
    /\ tlCursor' = NewToggleList(routeItems(tlRoutes, tlDeps)).Cursor
    /\ tlPc' = "ready"
    /\ UNCHANGED <<tlRoutes, tlDeps, tlLast, tlSelected>>
    /\ UNCHANGED notToggle

\* RunToggleStep returns on accept or back, or was skipped (NonInteractive):
\* the step is completed and the enabled routes are selected.
AcceptRoutes ==
    /\ tlPc = "ready"
    /\ tlSelected' = selectedRoutes(tlRoutes, tlItems)
    /\ tlPc' = "accepted"
    /\ UNCHANGED <<tlRoutes, tlDeps, tlItems, tlCursor, tlLast>>
    /\ UNCHANGED notToggle

\* RunToggleStep returns canceled, or the prompt failed: RunProfile returns.
CancelRoutes ==
    /\ tlPc = "ready"
    /\ tlPc' = "canceled"
    /\ UNCHANGED <<tlRoutes, tlDeps, tlItems, tlCursor, tlLast, tlSelected>>
    /\ UNCHANGED notToggle

NextRouteSelection ==
    \/ BuildRouteList
    \/ MoveUp
    \/ MoveDown
    \/ CallToggleCurrent
    \/ AcceptRoutes
    \/ CancelRoutes

SpecRouteSelection == InitRouteSelection /\ [][NextRouteSelection]_vars

\* ------------------------------------------------------------------ route-selection claims

\* The list of Step 2 exists.
RouteListBuilt == tlPc \in {"ready", "accepted", "canceled"}

\* Some route of the graph requires route r.
HasDependents(r) == \E q \in DOMAIN tlDeps : r \in Range(tlDeps[q])

\* C32: in the route-selection step, after any sequence of up/down/toggle
\* commands no route that is a dependency of an enabled route is disabled: a
\* toggle on a route that other routes depend on is refused (changed=false
\* with a non-empty reason) and leaves every item's Enabled flag unchanged.
C32_DependenciesStayEnabled ==
    RouteListBuilt =>
        /\ \A i, j \in 1..Len(tlItems) :
              (tlItems[i].Enabled /\ tlItems[j].ID \in Range(tlDeps[tlItems[i].ID]))
                  => tlItems[j].Enabled
        /\ \A k \in 1..Len(tlLast) :
              (tlLast[k].before # <<>>
               /\ HasDependents(tlLast[k].before[tlLast[k].cursor + 1].ID)) =>
                  /\ ~tlLast[k].changed
                  /\ tlLast[k].reason # <<>>
                  /\ tlItems = tlLast[k].before
        /\ tlPc = "accepted" =>
              \A r \in Range(tlSelected) : Range(tlDeps[r]) \cap Range(tlRoutes)
                                               \subseteq Range(tlSelected)

\* Every route is required by another one, the toggle under the cursor was
\* refused with its reason, and a route with a requirement is still enabled.
C32_Witness ==
    /\ tlPc = "ready"
    /\ Len(tlItems) >= 2
    /\ Len(tlLast) = 1
    /\ ~tlLast[1].changed
    /\ tlLast[1].reason = RequiredBy(1)
    /\ \E i, j \in 1..Len(tlItems) :
          i # j /\ tlItems[i].Enabled /\ tlItems[j].ID \in Range(tlDeps[tlItems[i].ID])

\* ------------------------------------------------------------------ Part 12: runner.Execute

\* The requirements of a route appended to order, each unless it was seen.
RECURSIVE appendUnseen(_, _)
appendUnseen(order, ids) ==
    IF ids = <<>> THEN order
    ELSE appendUnseen(IF Head(ids) \in Range(order) THEN order ELSE Append(order, Head(ids)),
                      Tail(ids))

\* The first loop of Execute: for every route its requirements, then the
\* route itself. seen holds exactly the IDs of order.
RECURSIVE buildOrder(_, _, _)
buildOrder(routes, dependencies, order) ==
    IF routes = <<>> THEN order
    ELSE buildOrder(Tail(routes), dependencies,
                    appendUnseen(appendUnseen(order, dependencies[Head(routes)]),
                                 <<Head(routes)>>))

\* ------------------------------------------------------------------ runner inputs

\* Requirement lists of up to two routes.
DepLists ==
    {Ascending(S) : S \in {T \in SUBSET RouteIDs : Cardinality(T) <= 2}}

\* The dependencies argument: any graph, cycles included.
RunnerGraphs == [RouteIDs -> DepLists]

\* What client.Do returns: an error or a status code.
InvocationOutcomes == {"error", "200", "404"}

\* The variables Execute leaves alone.
notRunner ==
    <<executorVars, plannerVars, retryVars, transformVars, rulesVars, applyVars, walkVars,
      toggleVars>>

InitRunner ==
    /\ ExecutorIdle
    /\ PlannerIdle
    /\ RetryIdle
    /\ TransformIdle
    /\ RulesIdle
    /\ ApplyIdle
    /\ WalkIdle
    /\ ToggleIdle
    /\ runRoutes \in RouteLists
    /\ runDeps \in RunnerGraphs
    /\ runPc = "call"
    /\ runOrder = <<>>
    /\ runNext = 0
    /\ runOut = <<>>

\* Execute builds order from the routes and their requirements.
BuildOrder ==
    /\ runPc = "call"
    /\ runOrder' = buildOrder(runRoutes, runDeps, <<>>)
    /\ runNext' = 1
    /\ runPc' = "invoke"
    /\ UNCHANGED <<runRoutes, runDeps, runOut>>
    /\ UNCHANGED notRunner

\* The ID at the loop's position is no selected route: continue.
SkipUnselected ==
    /\ runPc = "invoke"
    /\ runNext <= Len(runOrder)
    /\ runOrder[runNext] \notin Range(runRoutes)
    /\ runNext' = runNext + 1
    /\ UNCHANGED <<runRoutes, runDeps, runPc, runOrder, runOut>>
    /\ UNCHANGED notRunner

\* The route at the loop's position is requested and its invocation logged.
InvokeRoute ==
    /\ runPc = "invoke"
    /\ runNext <= Len(runOrder)
    /\ runOrder[runNext] \in Range(runRoutes)
    /\ \E resp \in InvocationOutcomes :
          runOut' = Append(runOut, [RouteID |-> runOrder[runNext],
                                    Success |-> resp = "200"])
    /\ runNext' = runNext + 1
    /\ UNCHANGED <<runRoutes, runDeps, runPc, runOrder>>
    /\ UNCHANGED notRunner

\* return out
ReturnInvocations ==
    /\ runPc = "invoke"
    /\ runNext > Len(runOrder)
    /\ runPc' = "returned"
    /\ UNCHANGED <<runRoutes, runDeps, runOrder, runNext, runOut>>
    /\ UNCHANGED notRunner

NextRunner ==
    \/ BuildOrder
    \/ SkipUnselected
    \/ InvokeRoute
    \/ ReturnInvocations

SpecRunner == InitRunner /\ [][NextRunner]_vars

\* ------------------------------------------------------------------ runner claims

\* Route r requires route d, directly or through a chain of requirements.
RECURSIVE Reaches(_, _, _)
Reaches(r, d, left) ==
    /\ left > 0
    /\ \/ d \in Range(runDeps[r])
       \/ \E q \in Range(runDeps[r]) : Reaches(q, d, left - 1)

Requires(r, d) == Reaches(r, d, MaxRoutes)

\* No route requires itself, directly or through a chain.
Acyclic == \A r \in RouteIDs : ~Requires(r, r)

\* The routes invoked so far.
Invoked == {runOut[k].RouteID : k \in 1..Len(runOut)}

\* C33: runner.Execute invokes each selected route at most once and invokes
\* every route only after all the routes it requires, directly or through a
\* chain, that are among the selected routes have been invoked, for every
\* dependency graph and every order of the route list. Stated for the graphs
\* without a cycle, where such an order exists.
C33_DependenciesFirst ==
    Acyclic =>
        /\ \A i, j \in 1..Len(runOut) : runOut[i].RouteID = runOut[j].RouteID => i = j
        /\ \A k \in 1..Len(runOut) :
              \A d \in Range(runRoutes) :
                  Requires(runOut[k].RouteID, d) =>
                      \E h \in 1..(k - 1) : runOut[h].RouteID = d

====
